---- MODULE Spec2Model ----
(***************************************************************************)
(* Agent loops of nirabo/single-file-agents.                               *)
(*                                                                         *)
(*   sfa_ollama_delegator_agent.py  main(): the loop of lines 374-519,     *)
(*       driven by the Anthropic or the Ollama chat backend, with the      *)
(*       single tool run_ollama_generate.                                  *)
(*   sfa_duckdb_gemini_v2.py        main(): the loop of lines 342-452.     *)
(*                                                                         *)
(* Python values are modelled by tagged records so that values of          *)
(* different Python types can be told apart: a str is [t |-> "str", s],    *)
(* an int [t |-> "num", n], None [t |-> "null"], a list [t |-> "arr", a],  *)
(* a dict [t |-> "obj", m] with m a function from its keys to values.      *)
(* A JSON text is the sequence of its lexical tokens.                      *)
(***************************************************************************)
EXTENDS Integers, Sequences, FiniteSets, TLC

\* Largest value of -c/--compute (max_loops) that is explored.
MaxLoops == 2

\* Most tool calls (Ollama), content blocks (Anthropic) or function calls
\* (Gemini) that the provider returns over one run, in one response or
\* spread over several.
MaxCalls == 3

(***************************************************************************)
(* The launch: the environment variables read by os.getenv and the -c      *)
(* option, [anthropic_api_key, gemini_api_key, ollama_base_url,            *)
(* compute_option |-> [given, value]]; an unset variable is "".            *)
(***************************************************************************)
VARIABLE env

(***************************************************************************)
(* omni.py: the module globals and, as history, what the calls of main()   *)
(* did.  A str is the sequence of its pieces; "" is <<>>.                  *)
(***************************************************************************)
VARIABLES
    ADDED_CAPABILITIES,      \* omni.py, line 24
    TRANSACTIONS_LOG,        \* omni.py, line 14
    last_main,               \* history: the last call of main(): its argv, the
                             \* branch taken, what it printed, the prompts it
                             \* sent and the outcomes of these requests, its
                             \* agent_response, the exception that left it
                             \* ("none" when it returned)
    main_calls,              \* history: how many times main() was called
    qwen3_requests           \* history: how many requests were posted to Ollama

omni_vars ==
    <<ADDED_CAPABILITIES, TRANSACTIONS_LOG, last_main, main_calls, qwen3_requests>>

\* omni.py, lines 14 and 24: the module as loaded, main() not yet called.
OmniFresh ==
    /\ ADDED_CAPABILITIES = <<>>
    /\ TRANSACTIONS_LOG = <<>>
    /\ last_main = [argv |-> <<>>, command |-> "none", raised |-> "none",
                    agent_response |-> <<>>, printed |-> <<>>, prompts |-> <<>>,
                    https |-> <<>>]
    /\ main_calls = 0
    /\ qwen3_requests = 0

(***************************************************************************)
(* Python values and JSON                                                  *)
(***************************************************************************)
JStr(s) == [t |-> "str", s |-> s]

JNum(n) == [t |-> "num", n |-> n]

JNull == [t |-> "null"]

JArr(a) == [t |-> "arr", a |-> a]

JObj(m) == [t |-> "obj", m |-> m]

\* The empty dict {}.
EmptyDict == [k \in {} |-> JNull]

\* Python truthiness, as tested by `if x` / `not x`.
Truthy(v) ==
    CASE v.t = "null" -> FALSE
      [] v.t = "str" -> v.s # ""
      [] v.t = "num" -> v.n # 0
      [] v.t = "arr" -> Len(v.a) > 0
      [] v.t = "obj" -> DOMAIN v.m # {}

\* d.get(k) on a dict d (the function from its keys): None when k is absent.
DictGet(d, k) == IF k \in DOMAIN d THEN d[k] ELSE JNull

\* The string literals of the JSON texts that are explored, with their token.
StrTokens ==
    { <<"", "\"\"">>, <<"hi", "\"hi\"">>, <<"llama3", "\"llama3\"">>,
      <<"be brief", "\"be brief\"">>,
      <<"model_name", "\"model_name\"">>, <<"prompt", "\"prompt\"">>,
      <<"system_prompt", "\"system_prompt\"">>,
      <<"context_window", "\"context_window\"">>,
      <<"error", "\"error\"">>, <<"model not found", "\"model not found\"">>,
      <<"response", "\"response\"">>, <<"plan A", "\"plan A\"">>,
      <<"plan B", "\"plan B\"">>, <<"Error: no", "\"Error: no\"">> }

\* The number literals of the JSON texts that are explored, with their token.
NumTokens == { <<0, "0">>, <<1, "1">>, <<4096, "4096">> }

Quote(s) == (CHOOSE p \in StrTokens : p[1] = s)[2]

Unquote(tok) == (CHOOSE p \in StrTokens : p[2] = tok)[1]

IsStrToken(tok) == \E p \in StrTokens : p[2] = tok

NumToken(n) == (CHOOSE p \in NumTokens : p[1] = n)[2]

NumOfToken(tok) == (CHOOSE p \in NumTokens : p[2] = tok)[1]

IsNumToken(tok) == \E p \in NumTokens : p[2] = tok

\* The order in which json.dumps emits the keys of the dicts explored
\* (a dict keeps insertion order; the dicts explored are built in this order).
KeyOrder == <<"model_name", "prompt", "system_prompt", "context_window">>

RECURSIVE DumpsElems(_, _)
RECURSIVE DumpsMembers(_, _)
RECURSIVE json_dumps(_)
\* json.dumps(v): the token sequence of the JSON text of v.
json_dumps(v) ==
    CASE v.t = "null" -> <<"null">>
      [] v.t = "str" -> <<Quote(v.s)>>
      [] v.t = "num" -> <<NumToken(v.n)>>
      [] v.t = "arr" -> <<"[">> \o DumpsElems(v.a, 1) \o <<"]">>
      [] v.t = "obj" -> <<"{">> \o DumpsMembers(v.m, 1) \o <<"}">>

DumpsElems(a, i) ==
    IF i > Len(a) THEN <<>>
    ELSE json_dumps(a[i])
         \o (IF i < Len(a) THEN <<",">> ELSE <<>>)
         \o DumpsElems(a, i + 1)

DumpsMembers(m, i) ==
    IF i > Len(KeyOrder) THEN <<>>
    ELSE LET k == KeyOrder[i]
             later == \E j \in (i + 1)..Len(KeyOrder) : KeyOrder[j] \in DOMAIN m
         IN  (IF k \in DOMAIN m
              THEN <<Quote(k), ":">> \o json_dumps(m[k])
                   \o (IF later THEN <<",">> ELSE <<>>)
              ELSE <<>>)
             \o DumpsMembers(m, i + 1)

\* Result of a parse step: ok, the value, and the index of the next token.
ParseFail == [ok |-> FALSE, v |-> JNull, next |-> 0]

ParseOk(v, next) == [ok |-> TRUE, v |-> v, next |-> next]

RECURSIVE ParseValue(_, _)
RECURSIVE ParseElems(_, _, _)
RECURSIVE ParseMembers(_, _, _)
\* One JSON value starting at token i.
ParseValue(toks, i) ==
    IF i > Len(toks) THEN ParseFail
    ELSE LET tok == toks[i] IN
         CASE tok = "null" -> ParseOk(JNull, i + 1)
           [] IsStrToken(tok) -> ParseOk(JStr(Unquote(tok)), i + 1)
           [] IsNumToken(tok) -> ParseOk(JNum(NumOfToken(tok)), i + 1)
           [] tok = "[" ->
                IF i + 1 <= Len(toks) /\ toks[i + 1] = "]"
                THEN ParseOk(JArr(<<>>), i + 2)
                ELSE ParseElems(toks, i + 1, <<>>)
           [] tok = "{" ->
                IF i + 1 <= Len(toks) /\ toks[i + 1] = "}"
                THEN ParseOk(JObj(EmptyDict), i + 2)
                ELSE ParseMembers(toks, i + 1, EmptyDict)
           [] OTHER -> ParseFail

\* Elements of an array from token i on, acc the elements read so far.
ParseElems(toks, i, acc) ==
    LET e == ParseValue(toks, i) IN
    IF ~e.ok \/ e.next > Len(toks) THEN ParseFail
    ELSE IF toks[e.next] = "]" THEN ParseOk(JArr(Append(acc, e.v)), e.next + 1)
    ELSE IF toks[e.next] = "," THEN ParseElems(toks, e.next + 1, Append(acc, e.v))
    ELSE ParseFail

\* Members of an object from token i on; a repeated key keeps the last value.
ParseMembers(toks, i, acc) ==
    IF i + 1 > Len(toks) \/ ~IsStrToken(toks[i]) \/ toks[i + 1] # ":"
    THEN ParseFail
    ELSE LET k == Unquote(toks[i])
             e == ParseValue(toks, i + 2)
             m == [x \in DOMAIN acc \cup {k} |-> IF x = k THEN e.v ELSE acc[x]]
         IN  IF ~e.ok \/ e.next > Len(toks) THEN ParseFail
             ELSE IF toks[e.next] = "}" THEN ParseOk(JObj(m), e.next + 1)
             ELSE IF toks[e.next] = "," THEN ParseMembers(toks, e.next + 1, m)
             ELSE ParseFail

\* json.loads(text): [ok |-> TRUE, v |-> value], or ok = FALSE where
\* json.loads raises json.JSONDecodeError.
json_loads(toks) ==
    LET r == ParseValue(toks, 1) IN
    IF r.ok /\ r.next = Len(toks) + 1
    THEN [ok |-> TRUE, v |-> r.v]
    ELSE [ok |-> FALSE, v |-> JNull]

\* A str that holds a JSON text (function.arguments as a string).
JText(toks) == [t |-> "text", toks |-> toks]

(***************************************************************************)
(* sfa_ollama_delegator_agent.py: what the environment can send            *)
(***************************************************************************)
Contents == {"", " ", "hi"}

\* A strip() that removes nothing.
Strip_Identity(s) == s

\* s.strip(): the strings explored that consist of whitespace only strip to "".
Strip(s) == IF s \in {"", " "} THEN "" ELSE s

ValidArgs == [model_name |-> JStr("llama3"), prompt |-> JStr("hi")]

NoModelArgs == [prompt |-> JStr("hi")]

\* Entries of message["tool_calls"] that the Ollama backend may return:
\* function.arguments is a dict or a str.
OllamaToolCalls ==
    { [id |-> "a", name |-> "run_ollama_generate",
       arguments |-> JText(json_dumps(JObj(ValidArgs)))],
      [id |-> "a", name |-> "other_tool", arguments |-> JObj(NoModelArgs)],
      [id |-> "c", name |-> "run_ollama_generate",
       arguments |-> JText(<<"{", "not", "valid", "json">>)],
      [id |-> "d", name |-> "run_ollama_generate",
       arguments |-> JText(<<"[", "1", "]">>)] }

SeqsUpTo(S, n) == UNION { [1..k -> S] : k \in 0..n }

\* Argument dicts of a tool call: with and without the required and the
\* optional keys, with empty, null and zero values.
ArgDicts ==
    { ValidArgs, NoModelArgs, EmptyDict,
      [model_name |-> JStr(""), prompt |-> JStr("hi")],
      [model_name |-> JStr("llama3"), prompt |-> JStr("hi"),
       system_prompt |-> JStr("be brief"), context_window |-> JNum(4096)],
      [model_name |-> JStr("llama3"), prompt |-> JStr("hi"),
       system_prompt |-> JNull, context_window |-> JNum(0)] }

\* Tool calls that carry each of these dicts in either encoding of
\* function.arguments: the dict itself, or the str of its JSON text.
EncodedToolCalls ==
    { [id |-> "a", name |-> n, arguments |-> enc] :
        n \in {"run_ollama_generate", "other_tool"},
        enc \in { JObj(A) : A \in ArgDicts }
                 \cup { JText(json_dumps(JObj(A))) : A \in ArgDicts } }

\* /api/chat responses with at most one of these tool calls (none when n = 0).
EncodedOutcomes(n) ==
    { [kind |-> "json",
       body |-> [message |-> [role |-> "assistant", content |-> c, tool_calls |-> tcs]]] :
        c \in {"", "hi"},
        tcs \in SeqsUpTo(EncodedToolCalls, IF n > 0 THEN 1 ELSE 0) }

\* The "message" objects of /api/chat responses with at most n tool calls.
OllamaMessages(n) ==
    { [role |-> "assistant", content |-> c, tool_calls |-> tcs] :
        c \in Contents, tcs \in SeqsUpTo(OllamaToolCalls, n) }

\* Outcomes of requests.post(.../api/chat) and of reading its body, the
\* message holding at most n tool calls.  A response with status >= 400
\* carries its body as text: a JSON object, a page that is not JSON, or a
\* JSON value that is not an object.
ChatHttpOutcomes(n) ==
    { [kind |-> "timeout"], [kind |-> "connection_error"],
      [kind |-> "request_exception"], [kind |-> "bad_json"],
      [kind |-> "http_error", status |-> 500,
       text |-> <<"{", "\"error\"", ":", "\"model not found\"", "}">>],
      [kind |-> "http_error", status |-> 404, text |-> <<"<html>">>],
      [kind |-> "http_error", status |-> 502, text |-> <<"[", "1", "]">>] }
    \cup { [kind |-> "json", body |-> [message |-> m]] : m \in OllamaMessages(n) }
    \cup { [kind |-> "json", body |-> [error |-> e]] : e \in {"model not found", ""} }
    \cup { [kind |-> "json", body |-> [done |-> TRUE]] }

\* Content blocks of an Anthropic response (response.content); the input of
\* a tool_use block is always an object.
AnthropicBlocks ==
    { [type |-> "text", text |-> c] : c \in Contents }
    \cup { [type |-> "tool_use", id |-> "a", name |-> "run_ollama_generate",
            input |-> JObj(ValidArgs)],
           [type |-> "tool_use", id |-> "b", name |-> "run_ollama_generate",
            input |-> JObj(NoModelArgs)],
           [type |-> "tool_use", id |-> "a", name |-> "other_tool",
            input |-> JObj(EmptyDict)] }

\* Outcomes of anthropic_client.messages.create, the response holding at
\* most n content blocks.
AnthropicOutcomes(n) ==
    { [kind |-> "raise", msg |-> "overloaded"] }
    \cup { [kind |-> "response", content |-> bs] :
             bs \in SeqsUpTo(AnthropicBlocks, n) }

\* Outcomes of requests.post(.../api/generate) inside run_ollama_generate.
GenerateHttpOutcomes ==
    { [kind |-> "ok", response |-> JStr("generated")],
      [kind |-> "timeout"],
      [kind |-> "ok", response |-> JNum(1)] }

(***************************************************************************)
(* sfa_ollama_delegator_agent.py: functions                                *)
(***************************************************************************)
\* A payload that always carries "options", whatever context_window is.
GeneratePayload_AlwaysOptions(model_name, prompt, system_prompt, context_window) ==
    LET base == [model |-> model_name, prompt |-> prompt, stream |-> FALSE]
        sys == IF Truthy(system_prompt)
               THEN [k \in {"system"} |-> system_prompt]
               ELSE [k \in {} |-> JNull]
        opt == [k \in {"options"} |-> [num_ctx |-> context_window]]
    IN  [k \in DOMAIN base \cup DOMAIN sys \cup DOMAIN opt |->
            IF k \in DOMAIN base THEN base[k]
            ELSE IF k \in DOMAIN sys THEN sys[k] ELSE opt[k]]

\* Lines 67-81: the payload of the /api/generate request.
GeneratePayload(model_name, prompt, system_prompt, context_window) ==
    LET base == [model |-> model_name, prompt |-> prompt, stream |-> FALSE]
        sys == IF Truthy(system_prompt)
               THEN [k \in {"system"} |-> system_prompt]
               ELSE [k \in {} |-> JNull]
        opt == IF Truthy(context_window)
               THEN [k \in {"options"} |-> [num_ctx |-> context_window]]
               ELSE [k \in {} |-> JNull]
    IN  [k \in DOMAIN base \cup DOMAIN sys \cup DOMAIN opt |->
            IF k \in DOMAIN base THEN base[k]
            ELSE IF k \in DOMAIN sys THEN sys[k] ELSE opt[k]]

\* Lines 60-63, 85-124: the str that run_ollama_generate returns, or raised = TRUE
\* when an exception leaves it (generated_text[:100] on a "response" that
\* is not a str raises TypeError, which no except clause of it catches).
run_ollama_generate(http) ==
    CASE env.ollama_base_url = "" ->
           [raised |-> FALSE, text |-> "Error: OLLAMA_BASE_URL is not configured."]
      [] http.kind = "timeout" ->
           [raised |-> FALSE,
            text |-> "Error: Timeout after 120s connecting to Ollama API."]
      [] http.kind = "ok" /\ http.response.t = "str" ->
           [raised |-> FALSE, text |-> http.response.s]
      [] OTHER ->
           [raised |-> TRUE, text |-> "'int' object is not subscriptable"]

\* Lines 185-228: the dict that get_ollama_chat_completion returns, or
\* [raised |-> the exception] when an exception leaves it: .get on the JSON
\* body of a failed request raises AttributeError when that body is not an
\* object, and no except clause of lines 213-228 catches it.
get_ollama_chat_completion(http) ==
    CASE http.kind = "timeout" ->
           [error |-> "Error: Timeout after 180s connecting to Ollama /api/chat."]
      [] http.kind = "connection_error" ->
           [error |-> "Error: Connection refused by Ollama /api/chat."]
      [] http.kind = "request_exception" ->
           [error |-> "Error: An unexpected error occurred with the Ollama /api/chat request."]
      [] http.kind = "bad_json" ->
           [error |-> "Error: Could not decode JSON response from Ollama /api/chat."]
      [] http.kind = "http_error" ->
           \* lines 187-194: response.json().get("error", response.text)
           LET body == json_loads(http.text) IN
           IF body.ok /\ body.v.t # "obj"
           THEN [raised |-> "AttributeError"]
           ELSE [error |-> "Error: Ollama /api/chat request failed.",
                 status_code |-> http.status]
      [] http.kind = "json" ->
           IF "message" \in DOMAIN http.body THEN http.body.message
           ELSE IF "error" \in DOMAIN http.body THEN [error |-> http.body.error]
           ELSE http.body

\* An error check that looks for the status code of a failed HTTP request.
HasError_StatusOnly(ollama_response) == "status_code" \in DOMAIN ollama_response

\* Line 409: ollama_response.get("error") is truthy.
HasError(ollama_response) ==
    "error" \in DOMAIN ollama_response /\ ollama_response.error # ""

RECURSIVE NormalizeToolCalls_NoDecode(_, _, _)
\* A normalization that passes function.arguments on as it came.
NormalizeToolCalls_NoDecode(tcs, i, acc) ==
    IF i > Len(tcs) THEN [raised |-> FALSE, blocks |-> acc]
    ELSE NormalizeToolCalls_NoDecode(tcs, i + 1,
            Append(acc, [type |-> "tool_use", id |-> tcs[i].id,
                         name |-> tcs[i].name, input |-> tcs[i].arguments]))

RECURSIVE NormalizeToolCalls(_, _, _)
\* Lines 420-431: one tool_use block per entry of tool_calls; raised = TRUE
\* when json.loads raises (nothing catches it).
NormalizeToolCalls(tcs, i, acc) ==
    IF i > Len(tcs) THEN [raised |-> FALSE, blocks |-> acc]
    ELSE LET tc == tcs[i]
             arguments == IF tc.arguments.t = "obj"
                          THEN json_dumps(tc.arguments)
                          ELSE tc.arguments.toks
             decoded == json_loads(arguments)
         IN  IF ~decoded.ok THEN [raised |-> TRUE, blocks |-> acc]
             ELSE NormalizeToolCalls(tcs, i + 1,
                    Append(acc, [type |-> "tool_use", id |-> tc.id,
                                 name |-> tc.name, input |-> decoded.v]))

\* A normalization that keeps the text only when there are no tool calls.
NormalizeOllama_TextOrTools(ollama_response) ==
    LET tcs == IF "tool_calls" \in DOMAIN ollama_response
               THEN ollama_response.tool_calls ELSE <<>>
        text == IF "content" \in DOMAIN ollama_response
                   /\ ollama_response.content # "" /\ tcs = <<>>
                THEN <<[type |-> "text", text |-> ollama_response.content]>>
                ELSE <<>>
    IN  NormalizeToolCalls(tcs, 1, text)

\* Lines 416-433: assistant_content_for_history of an Ollama message dict.
NormalizeOllama(ollama_response) ==
    LET text == IF "content" \in DOMAIN ollama_response
                   /\ ollama_response.content # ""
                THEN <<[type |-> "text", text |-> ollama_response.content]>>
                ELSE <<>>
        tcs == IF "tool_calls" \in DOMAIN ollama_response
               THEN ollama_response.tool_calls ELSE <<>>
    IN  NormalizeToolCalls(tcs, 1, text)

\* A has_text_response that counts any non-empty text, without strip().
HasTextResponse_NoStrip(blocks) ==
    \E i \in 1..Len(blocks) : blocks[i].type = "text" /\ blocks[i].text # ""

\* Lines 445-450: has_text_response.
HasTextResponse(blocks) ==
    \E i \in 1..Len(blocks) :
        blocks[i].type = "text" /\ Strip(blocks[i].text) # ""

\* A tool-call list that is always empty.
ToolCallsToFulfill_None(blocks) == <<>>

\* A tool-call list built back to front.
ToolCallsToFulfill_Reversed(blocks) ==
    LET tu == SelectSeq(blocks, LAMBDA b : b.type = "tool_use")
    IN  [i \in 1..Len(tu) |-> tu[Len(tu) + 1 - i]]

\* Lines 451-455: tool_calls_to_fulfill_from_llm.
ToolCallsToFulfill(blocks) ==
    SelectSeq(blocks, LAMBDA b : b.type = "tool_use")

RequiredArgsError(tool_name) ==
    "Error: 'model_name' and 'prompt' are required for " \o tool_name \o "."

UnknownToolError(tool_name) ==
    "Error: Unknown tool '" \o tool_name \o "' called by LLM."

InternalError(tool_name, msg) ==
    "Error executing tool " \o tool_name \o " internally: " \o msg

\* A tool_result that does not carry the id of the call it answers.
ToolResult_NoId(tool_use_id, content) ==
    [type |-> "tool_result", tool_use_id |-> "", content |-> content]

\* Lines 501-505: the tool_result block of one call.
ToolResult(tool_use_id, content) ==
    [type |-> "tool_result", tool_use_id |-> tool_use_id, content |-> content]

RECURSIVE Dispatch(_, _, _, _, _)
\* Lines 464-505: the tool calls of one turn, one after the other; https[i]
\* is what the /api/generate request of call i meets if the handler is
\* invoked.  raised = TRUE when tool_input.get raises AttributeError at line
\* 477 (the input is not a dict); calls lists the handler invocations made:
\* the id and the position of the call in the turn, what its /api/generate
\* request met, and the payload of that request.
Dispatch(tool_calls, https, i, results, calls) ==
    IF i > Len(tool_calls)
    THEN [raised |-> FALSE, results |-> results, calls |-> calls]
    ELSE LET b == tool_calls[i] IN
         IF b.name = "run_ollama_generate"
         THEN IF b.input.t # "obj"
              THEN [raised |-> TRUE, results |-> results, calls |-> calls]
              ELSE LET model_name_arg == DictGet(b.input.m, "model_name")
                       prompt_arg == DictGet(b.input.m, "prompt")
                       out == run_ollama_generate(https[i])
                   IN  IF ~Truthy(model_name_arg) \/ ~Truthy(prompt_arg)
                       THEN Dispatch(tool_calls, https, i + 1,
                                Append(results, ToolResult(b.id, RequiredArgsError(b.name))),
                                calls)
                       ELSE Dispatch(tool_calls, https, i + 1,
                                Append(results, ToolResult(b.id,
                                    IF out.raised THEN InternalError(b.name, out.text)
                                    ELSE out.text)),
                                Append(calls,
                                    [id |-> b.id, call |-> i, http |-> https[i],
                                     payload |-> GeneratePayload(model_name_arg, prompt_arg,
                                         DictGet(b.input.m, "system_prompt"),
                                         DictGet(b.input.m, "context_window"))]))
         ELSE Dispatch(tool_calls, https, i + 1,
                  Append(results, ToolResult(b.id, UnknownToolError(b.name))), calls)

\* Whether dispatch invokes run_ollama_generate for block b.
InvokesHandler(b) ==
    /\ b.name = "run_ollama_generate"
    /\ b.input.t = "obj"
    /\ Truthy(DictGet(b.input.m, "model_name"))
    /\ Truthy(DictGet(b.input.m, "prompt"))

\* The outcomes the /api/generate requests of one turn can meet: one per
\* tool call that reaches the handler.
GenerateOutcomesFor(tool_calls) ==
    { h \in [1..Len(tool_calls) -> GenerateHttpOutcomes] :
        \A i \in 1..Len(tool_calls) :
            ~InvokesHandler(tool_calls[i]) => h[i] = [kind |-> "timeout"] }

(***************************************************************************)
(* sfa_duckdb_gemini_v2.py: what the environment can send, and the tools   *)
(***************************************************************************)
\* Largest value of -c/--compute of sfa_duckdb_gemini_v2 that is explored.
MaxCompute == 3

\* Lines 369-373: the tools main() dispatches on.
RegisteredTools ==
    {"list_tables", "describe_table", "sample_table", "run_test_sql_query",
     "run_final_sql_query"}

\* Lines 37, 63, 91, 120, 148: the parameters of each tool, all required.
ToolParams(func_name) ==
    CASE func_name = "list_tables" -> {"reasoning"}
      [] func_name = "describe_table" -> {"reasoning", "table_name"}
      [] func_name = "sample_table" -> {"reasoning", "table_name", "row_sample_size"}
      [] func_name = "run_test_sql_query" -> {"reasoning", "sql_query"}
      [] func_name = "run_final_sql_query" -> {"reasoning", "sql_query"}

\* str(result) of a tool: what its duckdb subprocess printed.
ToolStdout(func_name) == func_name \o " stdout"

\* Entries of response.function_calls that the Gemini backend may return.
GeminiFunctionCalls ==
    { [name |-> "list_tables", args |-> [reasoning |-> "why"]],
      [name |-> "describe_table", args |-> [reasoning |-> "why", table_name |-> "users"]],
      [name |-> "sample_table", args |-> [reasoning |-> "why", table_name |-> "users"]],
      [name |-> "run_test_sql_query", args |-> [reasoning |-> "why", sql_query |-> "SELECT 1"]],
      [name |-> "run_final_sql_query", args |-> [reasoning |-> "why", sql_query |-> "SELECT 1"]],
      [name |-> "drop_table", args |-> [reasoning |-> "why"]] }

\* Outcomes of client.models.generate_content: it raises, or the response
\* carries text only, or at most n function calls.
GeminiOutcomes(n) ==
    { [kind |-> "raise"], [kind |-> "response", text |-> "answer", function_calls |-> <<>>] }
    \cup { [kind |-> "response", text |-> "", function_calls |-> fcs] :
             fcs \in SeqsUpTo(GeminiFunctionCalls, n) \ {<<>>} }

RECURSIVE FunctionCallParts(_, _)
FunctionCallParts(fcs, i) ==
    IF i > Len(fcs) THEN <<>>
    ELSE <<[function_call |-> fcs[i]]>> \o FunctionCallParts(fcs, i + 1)

\* response.candidates[0].content: the model's turn.
ModelContent(response) ==
    [role |-> "model",
     parts |-> (IF response.text # "" THEN <<[text |-> response.text]>> ELSE <<>>)
               \o FunctionCallParts(response.function_calls, 1)]

\* A Content that reports every outcome, errors too, under "result".
ToolContent_AlwaysResult(func_name, function_response) ==
    [role |-> "tool",
     parts |-> <<[function_response |->
                    [name |-> func_name,
                     response |-> [result |-> "Error executing " \o func_name]]]>>]

\* Lines 417-428 and 433-441: the Content that carries one function response.
ToolContent(func_name, function_response) ==
    [role |-> "tool",
     parts |-> <<[function_response |->
                    [name |-> func_name, response |-> function_response]]>>]

ExecutionError(func_name, e) == "Error executing " \o func_name \o ": " \o e

RECURSIVE ProcessFunctionCalls(_, _, _, _, _, _)
\* Lines 387-444: the function calls of one response, one after the other.
\* result is the local variable `result` of main(): it keeps the value of the
\* last tool that returned, and is unbound until a tool has returned.
ProcessFunctionCalls(response, i, msgs, result, executed, returned) ==
    IF returned \/ i > Len(response.function_calls)
    THEN [returned |-> returned, messages |-> msgs, result |-> result,
          executed |-> executed]
    ELSE LET fc == response.function_calls[i]
             content == ModelContent(response)
         IN  IF fc.name \in RegisteredTools /\ DOMAIN fc.args # ToolParams(fc.name)
             THEN \* tool(**func_args) raises TypeError: lines 430-444
                  ProcessFunctionCalls(response, i + 1,
                      msgs \o <<content, ToolContent(fc.name,
                          [error |-> ExecutionError(fc.name, "TypeError")])>>,
                      result, executed, FALSE)
             ELSE IF fc.name = "run_final_sql_query"
             THEN \* lines 406-410: return
                  ProcessFunctionCalls(response, i + 1, msgs,
                      [bound |-> TRUE, v |-> ToolStdout(fc.name)],
                      Append(executed, fc.name), TRUE)
             ELSE IF fc.name \in RegisteredTools
             THEN ProcessFunctionCalls(response, i + 1,
                      msgs \o <<content, ToolContent(fc.name,
                          [result |-> ToolStdout(fc.name)])>>,
                      [bound |-> TRUE, v |-> ToolStdout(fc.name)],
                      Append(executed, fc.name), FALSE)
             ELSE IF result.bound
             THEN \* no branch of lines 398-407 matches: line 413 reads the
                  \* result of the last tool that returned
                  ProcessFunctionCalls(response, i + 1,
                      msgs \o <<content, ToolContent(fc.name, [result |-> result.v])>>,
                      result, executed, FALSE)
             ELSE \* line 413 raises UnboundLocalError: lines 430-444
                  ProcessFunctionCalls(response, i + 1,
                      msgs \o <<content, ToolContent(fc.name,
                          [error |-> ExecutionError(fc.name, "UnboundLocalError")])>>,
                      result, executed, FALSE)

(***************************************************************************)
(* sfa_ollama_delegator_agent.py: main()                                   *)
(***************************************************************************)
VARIABLES
    provider,                \* effective_provider
    max_loops,               \* args.compute
    messages,                \* the conversation history
    loop_count,
    final_answer_delivered,
    pc,                      \* "start", "exited" (sys.exit(1)), "loop",
                             \* "report" (line 514), "done", "raised", "off"
    status,                  \* which of the messages of lines 514-519 was printed
    exit_reason,             \* how the for loop was left
    requests,                \* history: the messages passed to each provider request
    handler_calls,           \* history: the invocations of run_ollama_generate
    responses,               \* history: the outcome of each provider request
    compute,                 \* sfa_duckdb_gemini_v2: args.compute
    gemini_messages,         \* sfa_duckdb_gemini_v2: messages
    compute_iterations,
    result,                  \* the local `result` of its main()
    gemini_pc,               \* "start", "exited" (sys.exit(1)), "loop",
                             \* "returned" (line 410), "raised", "off"
    gemini_requests,         \* history: the contents passed to each request
    gemini_responses,        \* history: the outcome of each request
    executed                 \* history: the tools that were run

vars == <<provider, max_loops, messages, loop_count, final_answer_delivered,
          pc, status, exit_reason, requests, handler_calls, responses,
          compute, gemini_messages, compute_iterations, result, gemini_pc,
          gemini_requests, gemini_responses, executed, env, omni_vars>>

delegator_vars ==
    <<provider, max_loops, messages, loop_count, final_answer_delivered,
      pc, status, exit_reason, requests, handler_calls, responses, env,
      omni_vars>>

gemini_vars ==
    <<compute, gemini_messages, compute_iterations, result, gemini_pc,
      gemini_requests, gemini_responses, executed, env, omni_vars>>

\* The state of the two agent scripts, which omni.py does not touch.
agents_vars ==
    <<provider, max_loops, messages, loop_count, final_answer_delivered,
      pc, status, exit_reason, requests, handler_calls, responses,
      compute, gemini_messages, compute_iterations, result, gemini_pc,
      gemini_requests, gemini_responses, executed, env>>

\* A launch with every credential set, the default Ollama URL and -c c.
Env(c) ==
    [anthropic_api_key |-> "sk-ant", gemini_api_key |-> "g-key",
     ollama_base_url |-> "http://localhost:11434",
     compute_option |-> [given |-> TRUE, value |-> c]]

UserPrompt == "user prompt"

\* The tool calls, content blocks or function calls of one provider outcome.
CallsOf(o) ==
    IF o.kind = "response"
    THEN (IF "content" \in DOMAIN o THEN Len(o.content) ELSE Len(o.function_calls))
    ELSE IF o.kind = "json" /\ "message" \in DOMAIN o.body
    THEN Len(o.body.message.tool_calls)
    ELSE 0

RECURSIVE CallsFrom(_, _)
CallsFrom(os, i) ==
    IF i > Len(os) THEN 0 ELSE CallsOf(os[i]) + CallsFrom(os, i + 1)

\* How many more calls the provider may return in this run.
CallsLeft(os) == MaxCalls - CallsFrom(os, 1)

\* sfa_duckdb_gemini_v2.py, lines 337-342: the history and the counters
\* before the first pass of its loop.
GeminiFresh ==
    /\ gemini_messages = <<[role |-> "user", parts |-> <<[text |-> UserPrompt]>>]>>
    /\ compute_iterations = 0
    /\ result = [bound |-> FALSE, v |-> ""]
    /\ gemini_requests = <<>>
    /\ gemini_responses = <<>>
    /\ executed = <<>>

\* sfa_duckdb_gemini_v2.py, lines 337-345: the state when its loop starts.
GeminiStart == GeminiFresh /\ gemini_pc = "loop"

\* sfa_ollama_delegator_agent.py, lines 341-376: the state when its loop
\* starts; the other script is not running.
Init ==
    /\ compute = 0 /\ GeminiFresh /\ gemini_pc = "off"
    /\ OmniFresh
    /\ provider \in {"ollama", "anthropic"}
    /\ max_loops \in (-1)..MaxLoops
    /\ env = Env(max_loops)
    /\ messages = <<[role |-> "user", content |-> UserPrompt]>>
    /\ loop_count = 0
    /\ final_answer_delivered = FALSE
    /\ pc = "loop"
    /\ status = "none"
    /\ exit_reason = "none"
    /\ requests = <<>>
    /\ handler_calls = <<>>
    /\ responses = <<>>

\* A turn without text and without tool calls does not end the loop.
ProcessTurn_NoOpContinues(msgs, blocks) ==
    LET has_text_response == HasTextResponse(blocks)
        tool_calls == ToolCallsToFulfill(blocks)
    IN  IF tool_calls = <<>> /\ has_text_response
           THEN /\ final_answer_delivered' = TRUE
                /\ messages' = msgs
                /\ pc' = "report"
                /\ exit_reason' = "final_text"
                /\ UNCHANGED handler_calls
           ELSE IF tool_calls # <<>>
           THEN \E https \in GenerateOutcomesFor(tool_calls) :
                  LET d == Dispatch(tool_calls, https, 1, <<>>, <<>>) IN
                  /\ handler_calls' = handler_calls \o d.calls
                  /\ UNCHANGED final_answer_delivered
                  /\ IF d.raised
                     THEN /\ messages' = msgs
                          /\ pc' = "raised"
                          /\ exit_reason' = "AttributeError"
                     ELSE /\ messages' = Append(msgs,
                                [role |-> "user", content |-> d.results])
                          /\ pc' = "loop"
                          /\ UNCHANGED exit_reason
           ELSE /\ messages' = msgs
                /\ pc' = "loop"
                /\ UNCHANGED <<exit_reason, final_answer_delivered, handler_calls>>

\* Lines 442-512: the rest of the iteration once the assistant turn `blocks`
\* was appended, giving history `msgs`.
ProcessTurn(msgs, blocks) ==
    LET has_text_response == HasTextResponse(blocks)
        tool_calls == ToolCallsToFulfill(blocks)
    IN  IF tool_calls = <<>> /\ has_text_response
           THEN /\ final_answer_delivered' = TRUE
                /\ messages' = msgs
                /\ pc' = "report"
                /\ exit_reason' = "final_text"
                /\ UNCHANGED handler_calls
           ELSE IF tool_calls # <<>>
           THEN \E https \in GenerateOutcomesFor(tool_calls) :
                  LET d == Dispatch(tool_calls, https, 1, <<>>, <<>>) IN
                  /\ handler_calls' = handler_calls \o d.calls
                  /\ UNCHANGED final_answer_delivered
                  /\ IF d.raised
                     THEN /\ messages' = msgs
                          /\ pc' = "raised"
                          /\ exit_reason' = "AttributeError"
                     ELSE /\ messages' = Append(msgs,
                                [role |-> "user", content |-> d.results])
                          /\ pc' = "loop"
                          /\ UNCHANGED exit_reason
           ELSE /\ messages' = msgs
                /\ pc' = "report"
                /\ exit_reason' = "no_op"
                /\ UNCHANGED <<final_answer_delivered, handler_calls>>

\* A break on llm_error that also resets the history to the prompt.
ProviderError_ClearsHistory ==
    /\ pc' = "report"
    /\ exit_reason' = "provider_error"
    /\ messages' = <<messages[1]>>
    /\ UNCHANGED <<final_answer_delivered, handler_calls>>

\* Lines 438-440: break on llm_error.
ProviderError ==
    /\ pc' = "report"
    /\ exit_reason' = "provider_error"
    /\ UNCHANGED <<messages, final_answer_delivered, handler_calls>>

\* One iteration of the for loop with the Anthropic provider (lines 378-398,
\* 438-512).
AnthropicIteration ==
    /\ pc = "loop" /\ provider = "anthropic" /\ loop_count < max_loops
    /\ loop_count' = loop_count + 1
    /\ requests' = Append(requests, messages)
    /\ \E r \in AnthropicOutcomes(CallsLeft(responses)) :
         /\ responses' = Append(responses, r)
         /\ IF r.kind = "raise"
            THEN ProviderError
            ELSE ProcessTurn(Append(messages,
                     [role |-> "assistant", content |-> r.content]), r.content)
    /\ UNCHANGED <<provider, max_loops, status>>
    /\ UNCHANGED gemini_vars

\* Lines 403-512: what an iteration does with the outcome `http` of its
\* /api/chat request.
OllamaResponse(http) ==
    LET ollama_response == get_ollama_chat_completion(http)
        n == NormalizeOllama(ollama_response)
    IN  /\ responses' = Append(responses, http)
        /\ IF "raised" \in DOMAIN ollama_response
           THEN /\ pc' = "raised"
                /\ exit_reason' = "AttributeError in get_ollama_chat_completion"
                /\ UNCHANGED <<messages, final_answer_delivered, handler_calls>>
           ELSE IF HasError(ollama_response)
           THEN ProviderError
           ELSE IF n.raised
           THEN /\ pc' = "raised"
                /\ exit_reason' = "JSONDecodeError"
                /\ UNCHANGED <<messages, final_answer_delivered, handler_calls>>
           ELSE ProcessTurn(Append(messages,
                    [role |-> "assistant", content |-> n.blocks]), n.blocks)

\* An iteration whose loop test lets one pass too many through.
OllamaIteration_OneMore ==
    /\ pc = "loop" /\ provider = "ollama" /\ loop_count <= max_loops
    /\ loop_count' = loop_count + 1
    /\ requests' = Append(requests, messages)
    /\ \E http \in ChatHttpOutcomes(CallsLeft(responses)) : OllamaResponse(http)
    /\ UNCHANGED <<provider, max_loops, status>>
    /\ UNCHANGED gemini_vars

\* One iteration of the for loop with the Ollama provider (lines 378-383,
\* 400-512).
OllamaIteration ==
    /\ pc = "loop" /\ provider = "ollama" /\ loop_count < max_loops
    /\ loop_count' = loop_count + 1
    /\ requests' = Append(requests, messages)
    /\ \E http \in ChatHttpOutcomes(CallsLeft(responses)) : OllamaResponse(http)
    /\ UNCHANGED <<provider, max_loops, status>>
    /\ UNCHANGED gemini_vars

\* Line 378: range(max_loops) is used up.
LoopExhausted ==
    /\ pc = "loop" /\ loop_count >= max_loops
    /\ pc' = "report"
    /\ exit_reason' = "exhausted"
    /\ UNCHANGED <<provider, max_loops, messages, loop_count,
                   final_answer_delivered, status, requests, handler_calls,
                   responses>>
    /\ UNCHANGED gemini_vars

\* A report that tests the loop count before final_answer_delivered.
Report_BudgetFirst ==
    /\ pc = "report"
    /\ status' = IF loop_count = max_loops THEN "max_loops"
                 ELSE IF final_answer_delivered THEN "success"
                 ELSE "error"
    /\ pc' = "done"
    /\ UNCHANGED <<provider, max_loops, messages, loop_count,
                   final_answer_delivered, exit_reason, requests,
                   handler_calls, responses>>
    /\ UNCHANGED gemini_vars

\* Lines 514-519: the final status; main then returns.
Report ==
    /\ pc = "report"
    /\ status' = IF final_answer_delivered THEN "success"
                 ELSE IF loop_count = max_loops THEN "max_loops"
                 ELSE "error"
    /\ pc' = "done"
    /\ UNCHANGED <<provider, max_loops, messages, loop_count,
                   final_answer_delivered, exit_reason, requests,
                   handler_calls, responses>>
    /\ UNCHANGED gemini_vars

Next ==
    \/ AnthropicIteration
    \/ OllamaIteration
    \/ LoopExhausted
    \/ Report

Spec == Init /\ [][Next]_vars

\* The same run, given that every provider call and every tool call returns:
\* main() is sequential code, so the statement it has reached is executed.
FairSpec == Spec /\ WF_vars(Next)

(***************************************************************************)
(* sfa_duckdb_gemini_v2.py: main()                                         *)
(***************************************************************************)
\* The loop of sfa_duckdb_gemini_v2 starts; the other script is not running.
GeminiInit ==
    /\ compute \in 0..MaxCompute /\ GeminiStart
    /\ OmniFresh
    /\ env = Env(compute)
    /\ provider = "ollama" /\ max_loops = 0
    /\ messages = <<[role |-> "user", content |-> UserPrompt]>>
    /\ loop_count = 0
    /\ final_answer_delivered = FALSE
    /\ pc = "off"
    /\ status = "none"
    /\ exit_reason = "none"
    /\ requests = <<>>
    /\ handler_calls = <<>>
    /\ responses = <<>>

\* Lines 349-357: the budget check at the head of each iteration raises.
GeminiBudgetExceeded ==
    /\ gemini_pc = "loop"
    /\ compute_iterations + 1 >= compute
    /\ compute_iterations' = compute_iterations + 1
    /\ gemini_pc' = "raised"
    /\ UNCHANGED <<compute, gemini_messages, result, gemini_requests,
                   gemini_responses, executed>>
    /\ UNCHANGED delegator_vars

\* An iteration that goes on looping after run_final_sql_query.
GeminiIteration_NoReturn ==
    /\ gemini_pc = "loop"
    /\ compute_iterations + 1 < compute
    /\ compute_iterations' = compute_iterations + 1
    /\ gemini_requests' = Append(gemini_requests, gemini_messages)
    /\ \E response \in GeminiOutcomes(CallsLeft(gemini_responses)) :
         /\ gemini_responses' = Append(gemini_responses, response)
         /\ IF response.kind = "raise"
            THEN /\ gemini_pc' = "raised"
                 /\ UNCHANGED <<gemini_messages, result, executed>>
            ELSE IF response.function_calls # <<>>
            THEN LET p == ProcessFunctionCalls(response, 1, gemini_messages,
                                               result, executed, FALSE)
                 IN  /\ gemini_messages' = p.messages
                     /\ result' = p.result
                     /\ executed' = p.executed
                     /\ gemini_pc' = "loop"
            ELSE /\ gemini_messages' = Append(gemini_messages, ModelContent(response))
                 /\ gemini_pc' = "loop"
                 /\ UNCHANGED <<result, executed>>
    /\ UNCHANGED compute
    /\ UNCHANGED delegator_vars

\* Lines 349-452: one iteration that passes the budget check.
GeminiIteration ==
    /\ gemini_pc = "loop"
    /\ compute_iterations + 1 < compute
    /\ compute_iterations' = compute_iterations + 1
    /\ gemini_requests' = Append(gemini_requests, gemini_messages)
    /\ \E response \in GeminiOutcomes(CallsLeft(gemini_responses)) :
         /\ gemini_responses' = Append(gemini_responses, response)
         /\ IF response.kind = "raise"
            THEN \* lines 450-452
                 /\ gemini_pc' = "raised"
                 /\ UNCHANGED <<gemini_messages, result, executed>>
            ELSE IF response.function_calls # <<>>
            THEN LET p == ProcessFunctionCalls(response, 1, gemini_messages,
                                               result, executed, FALSE)
                 IN  /\ gemini_messages' = p.messages
                     /\ result' = p.result
                     /\ executed' = p.executed
                     /\ gemini_pc' = IF p.returned THEN "returned" ELSE "loop"
            ELSE \* lines 446-448
                 /\ gemini_messages' = Append(gemini_messages, ModelContent(response))
                 /\ gemini_pc' = "loop"
                 /\ UNCHANGED <<result, executed>>
    /\ UNCHANGED compute
    /\ UNCHANGED delegator_vars

GeminiNext ==
    \/ GeminiBudgetExceeded
    \/ GeminiIteration

GeminiSpec == GeminiInit /\ [][GeminiNext]_vars

(***************************************************************************)
(* Either script is run                                                    *)
(***************************************************************************)
AgentsInit == Init \/ GeminiInit

AgentsNext ==
    \/ Next
    \/ GeminiNext

AgentsSpec == AgentsInit /\ [][AgentsNext]_vars

(***************************************************************************)
(* Either script from its launch: argument parsing and the credential      *)
(* checks that come before the loop                                        *)
(***************************************************************************)
\* sfa_ollama_delegator_agent.py line 297: DEFAULT_MAX_COMPUTE_LOOPS unset.
DefaultMaxLoops == 7

\* sfa_duckdb_gemini_v2.py line 311: default of -c/--compute.
DefaultCompute == 10

NoOption == [given |-> FALSE, value |-> 0]

\* Launches of sfa_ollama_delegator_agent: ANTHROPIC_API_KEY and
\* --ollama-base-url set or empty, -c given or not.
DelegatorLaunches ==
    { [anthropic_api_key |-> k, gemini_api_key |-> "", ollama_base_url |-> u,
       compute_option |-> o] :
        k \in {"", "sk-ant"}, u \in {"", "http://localhost:11434"},
        o \in {NoOption, [given |-> TRUE, value |-> MaxLoops]} }

\* Launches of sfa_duckdb_gemini_v2: GEMINI_API_KEY set or not, -c given or
\* not.
GeminiLaunches ==
    { [anthropic_api_key |-> "", gemini_api_key |-> k, ollama_base_url |-> "",
       compute_option |-> o] :
        k \in {"", "g-key"},
        o \in {NoOption, [given |-> TRUE, value |-> MaxCompute]} }

StartupInit ==
    /\ \/ /\ env \in DelegatorLaunches
          /\ provider \in {"ollama", "anthropic"}
          /\ pc = "start" /\ gemini_pc = "off"
       \/ /\ env \in GeminiLaunches
          /\ provider = "ollama"
          /\ pc = "off" /\ gemini_pc = "start"
    /\ max_loops = 0
    /\ compute = 0
    /\ GeminiFresh
    /\ OmniFresh
    /\ messages = <<[role |-> "user", content |-> UserPrompt]>>
    /\ loop_count = 0
    /\ final_answer_delivered = FALSE
    /\ status = "none"
    /\ exit_reason = "none"
    /\ requests = <<>>
    /\ handler_calls = <<>>
    /\ responses = <<>>

\* A start-up that does not look at ANTHROPIC_API_KEY.
DelegatorStartup_NoKeyCheck ==
    /\ pc = "start"
    /\ IF provider = "ollama" /\ env.ollama_base_url = ""
       THEN /\ pc' = "exited" /\ status' = "exit 1"
            /\ UNCHANGED max_loops
       ELSE /\ pc' = "loop"
            /\ max_loops' = IF env.compute_option.given
                            THEN env.compute_option.value ELSE DefaultMaxLoops
            /\ UNCHANGED status
    /\ UNCHANGED <<provider, messages, loop_count, final_answer_delivered,
                   exit_reason, requests, handler_calls, responses>>
    /\ UNCHANGED gemini_vars

\* sfa_ollama_delegator_agent.py, lines 296-376: parse_args, the checks of
\* the selected provider (sys.exit(1) when they fail), and the set-up of
\* the loop.
DelegatorStartup ==
    /\ pc = "start"
    /\ IF \/ provider = "ollama" /\ env.ollama_base_url = ""
          \/ provider = "anthropic" /\ env.anthropic_api_key = ""
       THEN /\ pc' = "exited" /\ status' = "exit 1"
            /\ UNCHANGED max_loops
       ELSE /\ pc' = "loop"
            /\ max_loops' = IF env.compute_option.given
                            THEN env.compute_option.value ELSE DefaultMaxLoops
            /\ UNCHANGED status
    /\ UNCHANGED <<provider, messages, loop_count, final_answer_delivered,
                   exit_reason, requests, handler_calls, responses>>
    /\ UNCHANGED gemini_vars

\* sfa_duckdb_gemini_v2.py, lines 300-342: parse_args, then sys.exit(1)
\* when GEMINI_API_KEY is not set, else the set-up of the loop.
GeminiStartup ==
    /\ gemini_pc = "start"
    /\ compute' = IF env.compute_option.given
                  THEN env.compute_option.value ELSE DefaultCompute
    /\ gemini_pc' = IF env.gemini_api_key = "" THEN "exited" ELSE "loop"
    /\ UNCHANGED <<gemini_messages, compute_iterations, result,
                   gemini_requests, gemini_responses, executed>>
    /\ UNCHANGED delegator_vars

StartupNext ==
    \/ DelegatorStartup
    \/ GeminiStartup
    \/ Next
    \/ GeminiNext

StartupSpec == StartupInit /\ [][StartupNext]_vars

(***************************************************************************)
(* The Ollama loop fed with tool calls in both encodings of the arguments  *)
(***************************************************************************)
EncodingInit == Init /\ provider = "ollama"

\* One iteration of the for loop, the /api/chat request being answered
\* with one of these tool calls.
EncodingIteration ==
    /\ pc = "loop" /\ provider = "ollama" /\ loop_count < max_loops
    /\ loop_count' = loop_count + 1
    /\ requests' = Append(requests, messages)
    /\ \E http \in EncodedOutcomes(CallsLeft(responses)) : OllamaResponse(http)
    /\ UNCHANGED <<provider, max_loops, status>>
    /\ UNCHANGED gemini_vars

EncodingNext ==
    \/ EncodingIteration
    \/ LoopExhausted
    \/ Report

EncodingSpec == EncodingInit /\ [][EncodingNext]_vars

(***************************************************************************)
(* omni.py: the functions as written, lines 308-665                        *)
(***************************************************************************)
\* Most calls of main() in one session.
MaxInvocations == 2

\* Most requests posted to Ollama in one session.
MaxRequests == 2

\* A str argument or literal as the sequence of its pieces.
S(s) == IF s = "" THEN <<>> ELSE <<s>>

\* The str of a JSON string of the bodies explored; a leading "Error:" is a
\* piece of its own, so that startswith can see it.
Text(s) ==
    CASE s = "" -> <<>>
      [] s = "Error: no" -> <<"Error:", " no">>
      [] OTHER -> <<s>>

\* s.startswith(prefix), for a prefix that is one piece.
StartsWith(s, prefix) == Len(s) > 0 /\ s[1] = prefix

RECURSIVE Join(_, _)
\* " ".join(words), from word i on.
Join(words, i) ==
    IF i > Len(words) THEN <<>>
    ELSE S(words[i]) \o (IF i < Len(words) THEN <<" ">> ELSE <<>>)
         \o Join(words, i + 1)

\* Lines 18-20.
OLLAMA_ERROR_CONNECT ==
    <<"Error:", " Could not connect to Ollama. Ensure Ollama is running.">>

OLLAMA_ERROR_REQUEST_FAILED(status_code) ==
    <<"Error:", " Ollama request failed with status code ", ToString(status_code), ".">>

OLLAMA_ERROR_RESPONSE_FORMAT ==
    <<"Error:", " Unexpected response format from Ollama.">>

\* Bodies of a 200 response of /api/generate: a page that is not JSON, an
\* object without 'response', generated texts (one of them beginning with
\* "Error:"), a JSON array, and a 'response' that is null.
Qwen3Bodies ==
    { <<"<html>">>,
      <<"{", "}">>,
      <<"{", "\"response\"", ":", "\"plan A\"", "}">>,
      <<"{", "\"response\"", ":", "\"plan B\"", "}">>,
      <<"{", "\"response\"", ":", "\"Error: no\"", "}">>,
      <<"[", "1", "]">>,
      <<"{", "\"response\"", ":", "null", "}">> }

\* Outcomes of requests.post(OLLAMA_API_URL, ...) and of reading the body.
Qwen3HttpOutcomes ==
    { [kind |-> "connection_error"], [kind |-> "timeout"],
      [kind |-> "request_exception", msg |-> "too many redirects"],
      [kind |-> "response", status_code |-> 500, text |-> <<"<html>">>] }
    \cup { [kind |-> "response", status_code |-> 200, text |-> b] :
             b \in Qwen3Bodies }

\* What a call returned: a str (is_str), or another value, text then being
\* what print shows of it; or the exception that left the call.
Returned(text) == [raised |-> "none", is_str |-> TRUE, text |-> text]

\* Lines 415-439.  response.json().get(...) is looked up on whatever value the
\* body holds: a body that is not an object has no .get (AttributeError, which
\* no except clause of the function names), and the value of 'response' is
\* returned as it is, str or not.
get_qwen3_response(http) ==
    CASE http.kind = "connection_error" -> Returned(OLLAMA_ERROR_CONNECT)
      [] http.kind = "timeout" ->
           Returned(<<"Error:", " Ollama request timed out.">>)
      [] http.kind = "request_exception" ->
           Returned(<<"Error:", " An unexpected error occurred with Ollama request: ",
                      http.msg>>)
      [] http.kind = "response" /\ http.status_code # 200 ->
           Returned(OLLAMA_ERROR_REQUEST_FAILED(http.status_code))
      [] http.kind = "response" /\ http.status_code = 200 ->
           LET body == json_loads(http.text) IN
           IF ~body.ok THEN Returned(OLLAMA_ERROR_RESPONSE_FORMAT)
           ELSE IF body.v.t # "obj"
           THEN [raised |-> "AttributeError", is_str |-> FALSE, text |-> <<>>]
           ELSE IF "response" \notin DOMAIN body.v.m
           THEN Returned(OLLAMA_ERROR_RESPONSE_FORMAT)
           ELSE LET r == body.v.m["response"] IN
                IF r.t = "str" THEN Returned(Text(r.s))
                ELSE [raised |-> "none", is_str |-> FALSE, text |-> <<"None">>]

\* What a handler or a branch of main() did: the exception that left it or
\* "none", the agent_response it set, ADDED_CAPABILITIES afterwards, what it
\* printed and the prompts it posted.
Handled(agent_response, caps, printed, prompts) ==
    [raised |-> "none", agent_response |-> agent_response, caps |-> caps,
     printed |-> printed, prompts |-> prompts]

Raises(exception, caps, printed, prompts) ==
    [raised |-> exception, agent_response |-> <<>>, caps |-> caps,
     printed |-> printed, prompts |-> prompts]

\* any(cap['name'] == name for cap in ADDED_CAPABILITIES)
HasCapability(caps, name) == \E i \in 1..Len(caps) : caps[i].name = name

\* Lines 315-329: the prompt of handle_add_capability.
AddCapabilityPrompt(capability_name, description) ==
    <<"You are an expert Python software architect assisting the 'omni' agent. The user wants to add a new capability named '">>
    \o capability_name \o <<"' with the following description: '">>
    \o description \o <<"'. ... (e.g., omni ">>
    \o capability_name \o <<" [sub_commands] [options]) ...">>

\* A handler that appends without looking for the name.
handle_add_capability_NoDuplicateCheck(capability_name, description, http, caps) ==
    LET prompt == AddCapabilityPrompt(capability_name, description)
        attempt == <<"Attempting to generate plan for new capability: '">>
                   \o capability_name \o <<"'...">>
        plan == get_qwen3_response(http)
    IN  IF plan.raised # "none"
        THEN Raises(plan.raised, caps, <<attempt>>, <<prompt>>)
        ELSE IF ~plan.is_str
        THEN Raises("AttributeError", caps, <<attempt>>, <<prompt>>)
        ELSE IF StartsWith(plan.text, "Error:")
        THEN Handled(<<"Failed to get plan for capability '">> \o capability_name
                         \o <<"'. Error: ">> \o plan.text,
                     caps,
                     <<attempt, <<"Failed to generate plan: ">> \o plan.text>>,
                     <<prompt>>)
        ELSE Handled(<<"Placeholder for add capability '">> \o capability_name
                         \o <<"': qwen3 generated the following plan: ">>
                         \o plan.text,
                     Append(caps, [name |-> capability_name,
                                   type |-> "general_capability",
                                   description |-> description,
                                   plan |-> plan.text]),
                     <<attempt, <<"\n--- Generated Capability Plan ---">>,
                       plan.text, <<"--- End of Plan ---\n">>,
                       <<"Capability '">> \o capability_name
                           \o <<"' added to in-memory planned capabilities list for this session.">>>>,
                     <<prompt>>)

\* Lines 308-355: handle_add_capability.  plan_text.startswith is called on
\* whatever get_qwen3_response returned (AttributeError when it is not a str).
handle_add_capability(capability_name, description, http, caps) ==
    LET prompt == AddCapabilityPrompt(capability_name, description)
        attempt == <<"Attempting to generate plan for new capability: '">>
                   \o capability_name \o <<"'...">>
        plan == get_qwen3_response(http)
        exists == HasCapability(caps, capability_name)
    IN  IF plan.raised # "none"
        THEN Raises(plan.raised, caps, <<attempt>>, <<prompt>>)
        ELSE IF ~plan.is_str
        THEN Raises("AttributeError", caps, <<attempt>>, <<prompt>>)
        ELSE IF StartsWith(plan.text, "Error:")
        THEN Handled(<<"Failed to get plan for capability '">> \o capability_name
                         \o <<"'. Error: ">> \o plan.text,
                     caps,
                     <<attempt, <<"Failed to generate plan: ">> \o plan.text>>,
                     <<prompt>>)
        ELSE Handled(<<"Placeholder for add capability '">> \o capability_name
                         \o <<"': qwen3 generated the following plan: ">>
                         \o plan.text,
                     IF ~exists
                     THEN Append(caps, [name |-> capability_name,
                                        type |-> "general_capability",
                                        description |-> description,
                                        plan |-> plan.text])
                     ELSE caps,
                     <<attempt, <<"\n--- Generated Capability Plan ---">>,
                       plan.text, <<"--- End of Plan ---\n">>,
                       IF ~exists
                       THEN <<"Capability '">> \o capability_name
                            \o <<"' added to in-memory planned capabilities list for this session.">>
                       ELSE <<"Capability '">> \o capability_name
                            \o <<"' already exists in in-memory planned capabilities list. Plan displayed but list not updated.">>>>,
                     <<prompt>>)

\* The token sequence of the mcp_config_json arguments explored.
ConfigTokens(mcp_config_json) ==
    CASE mcp_config_json = "{}" -> <<"{", "}">>
      [] mcp_config_json = "{" -> <<"{">>
      [] OTHER -> <<mcp_config_json>>

\* Lines 373-387: the prompt of handle_add_mcp_tool; json.dumps(..., indent=2)
\* is shown as the tokens of the text, without its white space.
AddMcpToolPrompt(tool_name, mcp_config_details, description) ==
    <<"You are an expert Python software architect assisting the 'omni' agent. The user wants to integrate an existing external MCP (Multi-Agent Communication Protocol) tool named '">>
    \o tool_name \o <<"'.\nThe tool's MCP configuration is: ">>
    \o json_dumps(mcp_config_details)
    \o <<"\nThe user's description of this tool and its purpose is: '">>
    \o description \o <<"'. ... (e.g., omni call ">>
    \o tool_name \o <<" <payload_or_args>) ... call_mcp_">>
    \o tool_name \o <<"(payload) ...">>

\* A handler that asks for the plan before it reads the configuration.
handle_add_mcp_tool_PlanFirst(tool_name, mcp_config_json, description, http, caps) ==
    LET config == json_loads(ConfigTokens(mcp_config_json))
        prompt == AddMcpToolPrompt(tool_name, JNull, description)
        attempt == <<"Attempting to generate integration plan for MCP tool: '">>
                   \o tool_name \o <<"'...">>
        plan == get_qwen3_response(http)
    IN  IF plan.raised # "none"
        THEN Raises(plan.raised, caps, <<attempt>>, <<prompt>>)
        ELSE IF ~plan.is_str
        THEN Raises("AttributeError", caps, <<attempt>>, <<prompt>>)
        ELSE IF StartsWith(plan.text, "Error:")
        THEN Handled(<<"Failed to get plan for MCP tool '">> \o tool_name
                         \o <<"'. Error: ">> \o plan.text,
                     caps, <<attempt>>, <<prompt>>)
        ELSE Handled(<<"Placeholder for MCP tool '">> \o tool_name
                         \o <<"': qwen3 generated the following plan/code: ">>
                         \o plan.text,
                     IF ~HasCapability(caps, tool_name)
                     THEN Append(caps, [name |-> tool_name, type |-> "mcp_tool",
                                        config |-> config.v,
                                        description |-> description,
                                        plan |-> plan.text])
                     ELSE caps,
                     <<attempt>>, <<prompt>>)

\* Lines 357-413: handle_add_mcp_tool.
handle_add_mcp_tool(tool_name, mcp_config_json, description, http, caps) ==
    LET config == json_loads(ConfigTokens(mcp_config_json))
        error_msg == <<"Failed to add MCP tool '">> \o tool_name
                     \o <<"': Invalid JSON in configuration. Error: ",
                          "JSONDecodeError">>
        prompt == AddMcpToolPrompt(tool_name, config.v, description)
        attempt == <<"Attempting to generate integration plan for MCP tool: '">>
                   \o tool_name \o <<"'...">>
        plan == get_qwen3_response(http)
        exists == HasCapability(caps, tool_name)
    IN  IF ~config.ok
        THEN Handled(error_msg, caps, <<error_msg>>, <<>>)
        ELSE IF plan.raised # "none"
        THEN Raises(plan.raised, caps, <<attempt>>, <<prompt>>)
        ELSE IF ~plan.is_str
        THEN Raises("AttributeError", caps, <<attempt>>, <<prompt>>)
        ELSE IF StartsWith(plan.text, "Error:")
        THEN Handled(<<"Failed to get plan for MCP tool '">> \o tool_name
                         \o <<"'. Error: ">> \o plan.text,
                     caps,
                     <<attempt,
                       <<"Failed to generate plan for MCP tool: ">> \o plan.text>>,
                     <<prompt>>)
        ELSE Handled(<<"Placeholder for MCP tool '">> \o tool_name
                         \o <<"': qwen3 generated the following plan/code: ">>
                         \o plan.text,
                     IF ~exists
                     THEN Append(caps, [name |-> tool_name, type |-> "mcp_tool",
                                        config |-> config.v,
                                        description |-> description,
                                        plan |-> plan.text])
                     ELSE caps,
                     <<attempt,
                       <<"\n--- Generated MCP Tool Integration Plan & Placeholders ---">>,
                       plan.text, <<"--- End of MCP Tool Plan ---\n">>,
                       IF ~exists
                       THEN <<"MCP tool '">> \o tool_name
                            \o <<"' added to in-memory planned capabilities list for this session.">>
                       ELSE <<"A capability or MCP tool named '">> \o tool_name
                            \o <<"' already exists. Plan displayed but list not updated.">>>>,
                     <<prompt>>)

\* Lines 441-447; the timestamp is the number of the call of main().
create_transaction_data(timestamp, user_input_str, agent_response_str) ==
    [timestamp |-> timestamp, user_input |-> user_input_str,
     agent_response |-> agent_response_str]

\* json.dumps(transaction, indent=2), without its white space.
TransactionText(transaction) ==
    <<"{\"timestamp\": ", ToString(transaction.timestamp), ", \"user_input\": \"">>
    \o transaction.user_input \o <<"\", \"agent_response\": \"">>
    \o transaction.agent_response \o <<"\"}">>

\* Lines 454-465: handle_show_transactions.
handle_show_transactions(log, caps) ==
    IF log = <<>>
    THEN Handled(<<"No transactions to display for this session.">>, caps,
                 <<<<"No transactions recorded in this session.">>>>, <<>>)
    ELSE Handled(<<"Displayed in-memory transaction log.">>, caps,
                 <<<<"\n--- Transaction Log (In-Memory for this Session) ---">>>>
                 \o [i \in 1..Len(log) |-> TransactionText(log[i])]
                 \o <<<<"--- End of Transaction Log ---\n">>>>,
                 <<>>)

RECURSIVE CapabilityLines(_, _)
\* Lines 492-499 (and 581-587): one line per planned capability.
CapabilityLines(caps, i) ==
    IF i > Len(caps) THEN <<>>
    ELSE <<"- ">> \o caps[i].name
         \o (IF caps[i].type = "mcp_tool"
             THEN <<" (Type: MCP Tool Integration Definition - a plan for interacting with an external MCP-compliant tool)">>
             ELSE <<" (Type: General Capability Plan - a plan for a new Python-based feature)">>)
         \o <<": ">> \o caps[i].description \o <<"\n">>
         \o CapabilityLines(caps, i + 1)

\* Lines 474-503 (and 563-591): the prompt of the help text.
HelpPrompt(caps) ==
    <<"You are the omni agent. Describe yourself and your purpose. ...">>
    \o (IF caps # <<>>
        THEN <<"\n", "\n\nAdditionally, the following capabilities have been planned for this session (these are placeholders awaiting full implementation and are session-specific):\n">>
             \o CapabilityLines(caps, 1)
        ELSE <<"\n\nYou can add new capabilities for this session using the 'omni add <name> \"<description>\"' command ...">>)

\* Lines 468-507: display_help prints what get_qwen3_response returns.
display_help(http, caps) ==
    LET help == get_qwen3_response(http) IN
    IF help.raised # "none"
    THEN Raises(help.raised, caps, <<>>, <<HelpPrompt(caps)>>)
    ELSE Handled(<<>>, caps, <<help.text>>, <<HelpPrompt(caps)>>)

\* Lines 560-600: the help branch of main(): one request whose outcome sets
\* agent_response, then display_help with a request of its own.
HelpBranch(http_for_log, http, caps) ==
    LET ollama_outcome_for_log == get_qwen3_response(http_for_log)
        shown == display_help(http, caps)
        prompts == <<HelpPrompt(caps)>> \o shown.prompts
    IN  IF ollama_outcome_for_log.raised # "none"
        THEN Raises(ollama_outcome_for_log.raised, caps, <<>>, <<HelpPrompt(caps)>>)
        ELSE IF ~ollama_outcome_for_log.is_str
        THEN Raises("AttributeError", caps, <<>>, <<HelpPrompt(caps)>>)
        ELSE IF shown.raised # "none"
        THEN Raises(shown.raised, caps, <<>>, prompts)
        ELSE Handled(IF StartsWith(ollama_outcome_for_log.text, "Error:")
                     THEN <<"Attempted to display help via qwen3 (with session-only capabilities list and disclaimers), but encountered an error: ">>
                          \o ollama_outcome_for_log.text
                     ELSE <<"Displayed help message generated by qwen3 (with session-only capabilities list and disclaimers).">>,
                     caps, shown.printed, prompts)

\* Lines 602-608: the add branch of main().
AddBranch(capability_name, description, http, caps) ==
    IF capability_name # "" /\ description # ""
    THEN handle_add_capability(S(capability_name), S(description), http, caps)
    ELSE Handled(<<"Error:", " Missing arguments for 'add' command.">>, caps,
                 <<<<"Error:", " 'add' command requires capability_name and description.">>>>,
                 <<>>)

\* Lines 610-616: the add_mcp_tool branch of main().
AddMcpToolBranch(tool_name, mcp_config_json, description, http, caps) ==
    IF tool_name # "" /\ mcp_config_json # "" /\ description # ""
    THEN handle_add_mcp_tool(S(tool_name), mcp_config_json, S(description),
                             http, caps)
    ELSE Handled(<<"Error:", " Missing arguments for 'add_mcp_tool' command.">>,
                 caps,
                 <<<<"Error:", " 'add_mcp_tool' command requires tool_name, mcp_config_json, and description.">>>>,
                 <<>>)

\* Lines 26-306: the text that DESIGN_WORKFLOW_DOCS is meant to hold.
DESIGN_WORKFLOW_DOCS == <<"# Omni Agent: Add Capability Workflow Design\n...">>

\* Lines 621-622: handle_show_design_workflow() names a function that the
\* module does not define.
ShowDesignWorkflowBranch(caps) == Raises("NameError", caps, <<>>, <<>>)

\* Lines 624-633: the branch of an argv that names no command.
UnknownBranch(unknown, caps) ==
    Handled(<<"Reported unknown command: ", unknown[1]>>, caps,
            <<<<"Unknown command: '", unknown[1],
                "'. Use 'omni help' for available commands.">>>>,
            <<>>)

\* Lines 522-542: the sub-commands and the number of their arguments.
Commands ==
    {"help", "add", "add_mcp_tool", "show_transactions", "show_design_workflow"}

Arity(command) ==
    CASE command = "add" -> 2
      [] command = "add_mcp_tool" -> 3
      [] OTHER -> 0

\* Among the words explored, those argparse takes for an option.
IsOption(word) == word \in {"--foo"}

\* Line 557: parser.parse_known_args(sys.argv[1:]) for the forms of argv
\* explored: no word, one option, or a first word that is taken as the
\* sub-command.  A word that is no sub-command and a sub-command with too
\* few arguments end the process (parser.error, SystemExit(2)); words after
\* the arguments are left in unknown.
parse_known_args(argv) ==
    IF argv = <<>>
    THEN [exit |-> FALSE, command |-> "None", args |-> <<>>, unknown |-> <<>>]
    ELSE IF IsOption(argv[1])
    THEN [exit |-> FALSE, command |-> "None", args |-> <<>>, unknown |-> argv]
    ELSE IF argv[1] \notin Commands \/ Len(argv) - 1 < Arity(argv[1])
    THEN [exit |-> TRUE, command |-> "None", args |-> <<>>, unknown |-> <<>>]
    ELSE [exit |-> FALSE, command |-> argv[1],
          args |-> SubSeq(argv, 2, 1 + Arity(argv[1])),
          unknown |-> SubSeq(argv, 2 + Arity(argv[1]), Len(argv))]

\* The command lines explored (sys.argv[1:]).
Argvs ==
    { <<>>, <<"help">>, <<"show_transactions">>, <<"show_design_workflow">>,
      <<"foobar">>, <<"--foo">>, <<"add", "a">>,
      <<"add", "", "d1">>, <<"add_mcp_tool", "", "{}", "d1">> }
    \cup { <<"add", "a", "d1">>, <<"add", "a", "d2">>, <<"add", "b", "d1">> }
    \cup { <<"add_mcp_tool", "a", "{}", "d2">>, <<"add_mcp_tool", "b", "{}", "d1">>,
           <<"add_mcp_tool", "a", "{", "d1">>, <<"add_mcp_tool", "b", "{", "d2">> }

\* No script is running and omni.py was loaded.
OmniInit ==
    /\ OmniFresh
    /\ env = Env(0)
    /\ compute = 0 /\ GeminiFresh /\ gemini_pc = "off"
    /\ provider = "ollama" /\ max_loops = 0
    /\ messages = <<[role |-> "user", content |-> UserPrompt]>>
    /\ loop_count = 0
    /\ final_answer_delivered = FALSE
    /\ pc = "off"
    /\ status = "none"
    /\ exit_reason = "none"
    /\ requests = <<>>
    /\ handler_calls = <<>>
    /\ responses = <<>>

\* Lines 514 and 657-665: the end of main() for the branch command that did
\* o, its requests having had the outcomes https.  An exception leaves
\* main() before line 657; otherwise the transaction is logged, with the
\* stand-in of line 661 for an empty agent_response.
MainEnds(argv, command, https, o) ==
    LET user_input == Join(<<"omni.py">> \o argv, 1)
        agent_response ==
            IF o.agent_response = <<>>
            THEN <<"Error:", " Agent response not set for this interaction.">>
            ELSE o.agent_response
    IN  /\ qwen3_requests + Len(o.prompts) <= MaxRequests
        /\ qwen3_requests' = qwen3_requests + Len(o.prompts)
        /\ ADDED_CAPABILITIES' = o.caps
        /\ TRANSACTIONS_LOG' =
             IF o.raised = "none"
             THEN Append(TRANSACTIONS_LOG,
                         create_transaction_data(main_calls + 1, user_input,
                                                 agent_response))
             ELSE TRANSACTIONS_LOG
        /\ last_main' = [argv |-> argv, command |-> command, raised |-> o.raised,
                         agent_response |-> IF o.raised = "none"
                                            THEN agent_response ELSE <<>>,
                         printed |-> o.printed, prompts |-> o.prompts,
                         https |-> SubSeq(https, 1, Len(o.prompts))]

\* main() called with a command line that argparse rejects: SystemExit(2)
\* at line 557.
MainUsageError ==
    /\ main_calls < MaxInvocations
    /\ main_calls' = main_calls + 1
    /\ \E argv \in Argvs :
         /\ parse_known_args(argv).exit
         /\ MainEnds(argv, "usage", <<>>,
                     Raises("SystemExit", ADDED_CAPABILITIES, <<>>, <<>>))
    /\ UNCHANGED agents_vars

\* main() for help or for no argument (line 560).
MainHelp ==
    /\ main_calls < MaxInvocations
    /\ main_calls' = main_calls + 1
    /\ \E argv \in Argvs, http_for_log \in Qwen3HttpOutcomes,
          http \in Qwen3HttpOutcomes :
         LET a == parse_known_args(argv) IN
         /\ ~a.exit
         /\ a.command = "help" \/ (a.command = "None" /\ a.unknown = <<>>)
         /\ MainEnds(argv, "help", <<http_for_log, http>>,
                     HelpBranch(http_for_log, http, ADDED_CAPABILITIES))
    /\ UNCHANGED agents_vars

\* main() for add (line 602).
MainAdd ==
    /\ main_calls < MaxInvocations
    /\ main_calls' = main_calls + 1
    /\ \E argv \in Argvs, http \in Qwen3HttpOutcomes :
         LET a == parse_known_args(argv) IN
         /\ ~a.exit /\ a.command = "add"
         /\ MainEnds(argv, "add", <<http>>,
                     AddBranch(a.args[1], a.args[2], http, ADDED_CAPABILITIES))
    /\ UNCHANGED agents_vars

\* main() for add_mcp_tool (line 610).
MainAddMcpTool ==
    /\ main_calls < MaxInvocations
    /\ main_calls' = main_calls + 1
    /\ \E argv \in Argvs, http \in Qwen3HttpOutcomes :
         LET a == parse_known_args(argv) IN
         /\ ~a.exit /\ a.command = "add_mcp_tool"
         /\ MainEnds(argv, "add_mcp_tool", <<http>>,
                     AddMcpToolBranch(a.args[1], a.args[2], a.args[3], http,
                                      ADDED_CAPABILITIES))
    /\ UNCHANGED agents_vars

\* main() for show_transactions (line 618).
MainShowTransactions ==
    /\ main_calls < MaxInvocations
    /\ main_calls' = main_calls + 1
    /\ \E argv \in Argvs :
         LET a == parse_known_args(argv) IN
         /\ ~a.exit /\ a.command = "show_transactions"
         /\ MainEnds(argv, "show_transactions", <<>>,
                     handle_show_transactions(TRANSACTIONS_LOG,
                                              ADDED_CAPABILITIES))
    /\ UNCHANGED agents_vars

\* main() for show_design_workflow (line 621).
MainShowDesignWorkflow ==
    /\ main_calls < MaxInvocations
    /\ main_calls' = main_calls + 1
    /\ \E argv \in Argvs :
         LET a == parse_known_args(argv) IN
         /\ ~a.exit /\ a.command = "show_design_workflow"
         /\ MainEnds(argv, "show_design_workflow", <<>>,
                     ShowDesignWorkflowBranch(ADDED_CAPABILITIES))
    /\ UNCHANGED agents_vars

\* main() for words that name no command (line 624).
MainUnknown ==
    /\ main_calls < MaxInvocations
    /\ main_calls' = main_calls + 1
    /\ \E argv \in Argvs :
         LET a == parse_known_args(argv) IN
         /\ ~a.exit /\ a.command = "None" /\ a.unknown # <<>>
         /\ MainEnds(argv, "unknown", <<>>,
                     UnknownBranch(a.unknown, ADDED_CAPABILITIES))
    /\ UNCHANGED agents_vars

\* The calls of main() in one session of the module, in any order.
OmniNext ==
    \/ MainUsageError
    \/ MainHelp
    \/ MainAdd
    \/ MainAddMcpTool
    \/ MainShowTransactions
    \/ MainShowDesignWorkflow
    \/ MainUnknown

OmniSpec == OmniInit /\ [][OmniNext]_vars

(***************************************************************************)
(* Vocabulary of the properties, stated on the history and on the raw      *)
(* provider outcomes rather than through the functions of the loop.        *)
(***************************************************************************)
\* Whitespace-only strings among the texts explored.
BlankTexts == {"", " "}

ToolUses(blocks) == SelectSeq(blocks, LAMBDA b : b.type = "tool_use")

NoToolUse(blocks) == \A i \in 1..Len(blocks) : blocks[i].type # "tool_use"

NonBlankText(blocks) ==
    \E i \in 1..Len(blocks) :
        blocks[i].type = "text" /\ blocks[i].text \notin BlankTexts

\* Turn k is an assistant turn that requests tools (turn 1 is the prompt).
RequestsTools(k) ==
    /\ k >= 2 /\ k <= Len(messages)
    /\ messages[k].role = "assistant"
    /\ ~NoToolUse(messages[k].content)

\* Turn k + 1 is the one turn that answers the tool_use blocks of turn k:
\* one tool_result per tool_use, same id, same order, nothing else, and the
\* turn after it is not a second tool-result turn.
Answered(k) ==
    /\ k + 1 <= Len(messages)
    /\ messages[k + 1].role = "user"
    /\ LET tu == ToolUses(messages[k].content)
           res == messages[k + 1].content
       IN  /\ Len(res) = Len(tu)
           /\ \A j \in 1..Len(res) :
                /\ res[j].type = "tool_result"
                /\ res[j].tool_use_id = tu[j].id
                /\ res[j].tool_use_id \in { tu[i].id : i \in 1..Len(tu) }
    /\ (k + 2 <= Len(messages) => messages[k + 2].role = "assistant")

\* The step made a provider request.
RequestMade == Len(requests') = Len(requests) + 1

\* The outcome of the request made in the step.
NewResponse == responses'[Len(responses')]

\* The step appended an assistant turn; NewTurn is its content.
TurnAppended ==
    /\ Len(messages') > Len(messages)
    /\ messages'[Len(messages) + 1].role = "assistant"

NewTurn == messages'[Len(messages) + 1].content

\* The provider call failed: messages.create raised, or
\* get_ollama_chat_completion came back with an error message (a failed
\* request whose body is a JSON value other than an object makes it raise
\* instead: see C23).
ProviderFailed(o) ==
    \/ o.kind \in {"raise", "timeout", "connection_error", "request_exception",
                   "bad_json"}
    \/ o.kind = "http_error" /\ o.text # <<"[", "1", "]">>
    \/ /\ o.kind = "json"
       /\ "message" \notin DOMAIN o.body
       /\ "error" \in DOMAIN o.body
       /\ o.body.error # ""

\* The provider answered with a message that requests at least one tool call.
RequestsToolCall(o) ==
    \/ o.kind = "response" /\ ~NoToolUse(o.content)
    \/ /\ o.kind = "json"
       /\ "message" \in DOMAIN o.body
       /\ o.body.message.tool_calls # <<>>

\* The provider answered with a message without tool calls and without text
\* that is non-empty after stripping.
NoOpResponse(o) ==
    \/ o.kind = "response" /\ NoToolUse(o.content) /\ ~NonBlankText(o.content)
    \/ /\ o.kind = "json"
       /\ "message" \in DOMAIN o.body
       /\ o.body.message.tool_calls = <<>>
       /\ o.body.message.content \in BlankTexts

C2_Step ==
    /\ (TurnAppended /\ NoToolUse(NewTurn) /\ NonBlankText(NewTurn)) =>
          /\ final_answer_delivered'
          /\ pc' = "report" /\ exit_reason' = "final_text"
          /\ Len(messages') = Len(messages) + 1
          /\ handler_calls' = handler_calls
    /\ (final_answer_delivered' /\ ~final_answer_delivered) =>
          TurnAppended /\ NoToolUse(NewTurn) /\ NonBlankText(NewTurn)
    /\ (TurnAppended /\ ~NoToolUse(NewTurn)) =>
          ~final_answer_delivered' /\ exit_reason' # "final_text"
    /\ final_answer_delivered =>
          /\ final_answer_delivered'
          /\ requests' = requests /\ handler_calls' = handler_calls
          /\ messages' = messages

C2_FinalTextExactly == [][C2_Step]_vars

C2_Witness ==
    /\ pc = "done" /\ final_answer_delivered
    /\ Len(requests) = 2 /\ Len(messages) = 4

(***************************************************************************)
(* C3. (Ollama provider) a tool call whose function.arguments is a string  *)
(* that is not valid JSON does not abort the loop: the history ends with   *)
(* the tool-result turn that answers it, and the handler was not invoked   *)
(* for it.                                                                 *)
(***************************************************************************)
MalformedCalls(o) ==
    IF o.kind = "json" /\ "message" \in DOMAIN o.body
    THEN { i \in 1..Len(o.body.message.tool_calls) :
             LET a == o.body.message.tool_calls[i].arguments
             IN  a.t = "text" /\ ~json_loads(a.toks).ok }
    ELSE {}

C3_MalformedArgumentsAnswered ==
    (provider = "ollama" /\ responses # <<>>) =>
        LET o == responses[Len(responses)]
            last == messages[Len(messages)]
        IN  MalformedCalls(o) # {} =>
              /\ pc # "raised"
              /\ Len(messages) >= 3 /\ last.role = "user"
              /\ \A i \in MalformedCalls(o) :
                    /\ i <= Len(last.content)
                    /\ last.content[i].tool_use_id = o.body.message.tool_calls[i].id
                    /\ \A c \in 1..Len(handler_calls) :
                          handler_calls[c].id # o.body.message.tool_calls[i].id

(***************************************************************************)
(* C4. A tool call whose name is not run_ollama_generate never makes the   *)
(* loop raise: the turn right after the assistant turn of its response     *)
(* answers it with the unknown-tool message, and the history of the next   *)
(* provider request holds that answer.                                     *)
(***************************************************************************)
\* The names and ids of the tool calls of a provider outcome, in order.
RequestedCalls(o) ==
    IF o.kind = "response" THEN ToolUses(o.content)
    ELSE IF o.kind = "json" /\ "message" \in DOMAIN o.body
    THEN o.body.message.tool_calls
    ELSE <<>>

C4_UnknownToolAnswered ==
    \A r \in 1..Len(responses) :
        LET calls == RequestedCalls(responses[r])
            at == Len(requests[r]) + 2
        IN  \A i \in 1..Len(calls) :
              calls[i].name # "run_ollama_generate" =>
                /\ pc # "raised"
                /\ Len(messages) >= at
                /\ messages[at].role = "user"
                /\ Len(messages[at].content) = Len(calls)
                /\ messages[at].content[i] =
                     [type |-> "tool_result", tool_use_id |-> calls[i].id,
                      content |-> "Error: Unknown tool 'other_tool' called by LLM."]
                /\ r < Len(requests) =>
                     SubSeq(requests[r + 1], 1, at) = SubSeq(messages, 1, at)

(***************************************************************************)
(* C5. When the provider call fails, the loop is left in that iteration:   *)
(* the history is what it was before the call, no tool runs, the final     *)
(* answer is not delivered, and no request, tool call or turn follows.     *)
(***************************************************************************)
C5_Step ==
    /\ (RequestMade /\ ProviderFailed(NewResponse)) =>
          /\ pc' = "report" /\ exit_reason' = "provider_error"
          /\ messages' = messages
          /\ handler_calls' = handler_calls
          /\ ~final_answer_delivered'
    /\ exit_reason = "provider_error" =>
          /\ requests' = requests /\ messages' = messages
          /\ handler_calls' = handler_calls
          /\ ~final_answer_delivered'
          /\ exit_reason' = "provider_error"

C5_ProviderErrorEndsLoop == [][C5_Step]_vars

C5_Witness ==
    /\ pc = "done" /\ exit_reason = "provider_error"
    /\ Len(requests) = 2 /\ Len(messages) = 3

(***************************************************************************)
(* C6. With max_loops = N >= 1, a run in which every provider response     *)
(* requests at least one tool call makes exactly N requests, answers the   *)
(* tool calls of all N responses and ends with the maximum-loops outcome.  *)
(***************************************************************************)
C6_BudgetExceededAfterN ==
    ( /\ max_loops >= 1
      /\ pc \in {"done", "raised"}
      /\ \A r \in 1..Len(responses) : RequestsToolCall(responses[r]) ) =>
        /\ Len(requests) = max_loops
        /\ Len(messages) = 1 + 2 * max_loops
        /\ \A k \in 2..Len(messages) : RequestsTools(k) => Answered(k)
        /\ exit_reason = "exhausted" /\ status = "max_loops"
        /\ ~final_answer_delivered

(***************************************************************************)
(* C7. Using up the loop budget without a final text answer is fatal:      *)
(* main does not return normally from it.                                  *)
(***************************************************************************)
C7_BudgetExhaustionIsFatal ==
    (exit_reason = "exhausted" /\ ~final_answer_delivered) => pc # "done"

(***************************************************************************)
(* C8. A response without tool calls and without non-blank text ends the   *)
(* loop in that iteration without raising: no tool runs, at most the       *)
(* assistant turn is appended (no tool-result turn), the final answer is   *)
(* not delivered, and no request, tool call or turn follows.               *)
(***************************************************************************)
C8_Step ==
    /\ (RequestMade /\ NoOpResponse(NewResponse)) =>
          /\ pc' = "report" /\ exit_reason' = "no_op"
          /\ handler_calls' = handler_calls
          /\ ~final_answer_delivered'
          /\ \/ messages' = messages
             \/ /\ TurnAppended
                /\ Len(messages') = Len(messages) + 1
                /\ SubSeq(messages', 1, Len(messages)) = messages
    /\ exit_reason = "no_op" =>
          /\ requests' = requests /\ messages' = messages
          /\ handler_calls' = handler_calls
          /\ ~final_answer_delivered'
          /\ exit_reason' = "no_op" /\ pc' # "raised"

C8_NoOpTurnEndsLoop == [][C8_Step]_vars

C8_Witness ==
    /\ pc = "done" /\ exit_reason = "no_op" /\ ~final_answer_delivered
    /\ Len(requests) = 2 /\ Len(messages) = 4

(***************************************************************************)
(* C9. The status reported after the loop names the way the loop ended:    *)
(* success for the final text, maximum loops when range(max_loops) was     *)
(* used up, and the error outcome after a provider error or a no-op turn.  *)
(***************************************************************************)
C9_StatusMatchesExit ==
    (pc = "done" /\ max_loops >= 0) =>
        /\ status = "success" <=> exit_reason = "final_text"
        /\ status = "max_loops" <=> exit_reason = "exhausted"
        /\ status = "error" <=> exit_reason \in {"provider_error", "no_op"}

(***************************************************************************)
(* C10. (sfa_duckdb_gemini_v2) a response with N >= 1 function calls, none *)
(* of them run_final_sql_query, adds exactly two turns to the history      *)
(* before the next request: the model's turn, once, and one tool turn      *)
(* whose N parts answer the N calls in order.                              *)
(***************************************************************************)
NoFinalQuery(fcs) ==
    \A i \in 1..Len(fcs) : fcs[i].name # "run_final_sql_query"

C10_OneToolTurnPerResponse ==
    \A r \in 1..Len(gemini_responses) :
        LET o == gemini_responses[r]
            before == Len(gemini_requests[r])
            after == IF r < Len(gemini_requests)
                     THEN Len(gemini_requests[r + 1])
                     ELSE Len(gemini_messages)
        IN  ( /\ o.kind = "response"
              /\ o.function_calls # <<>>
              /\ NoFinalQuery(o.function_calls) ) =>
               /\ after = before + 2
               /\ gemini_messages[before + 1].role = "model"
               /\ gemini_messages[before + 2].role = "tool"
               /\ Len(gemini_messages[before + 2].parts) = Len(o.function_calls)
               /\ \A j \in 1..Len(o.function_calls) :
                     gemini_messages[before + 2].parts[j].function_response.name
                       = o.function_calls[j].name

(***************************************************************************)
(* C11. (sfa_duckdb_gemini_v2) a response without function calls and with  *)
(* a non-empty text ends the loop: it is the last response of the run, no  *)
(* request follows the turn it appended, and the run neither goes on       *)
(* looping nor fails.                                                      *)
(***************************************************************************)
TextOnly(o) ==
    o.kind = "response" /\ o.function_calls = <<>> /\ o.text # ""

C11_FinalTextEndsLoop ==
    \A r \in 1..Len(gemini_responses) :
        TextOnly(gemini_responses[r]) =>
            /\ r = Len(gemini_requests)
            /\ gemini_pc \notin {"loop", "raised"}

(***************************************************************************)
(* C12. (sfa_duckdb_gemini_v2) with --compute N >= 1 the 'Maximum compute  *)
(* loops reached' exception is raised only after N provider responses were *)
(* processed; with N = 1 the first response is obtained.                   *)
(***************************************************************************)
\* main() raised at lines 351-357: the iteration was counted and no request
\* was made in it.
BudgetRaised ==
    gemini_pc = "raised" /\ compute_iterations = Len(gemini_requests) + 1

C12_BudgetPermitsN ==
    (compute >= 1 /\ BudgetRaised) =>
        /\ Len(gemini_requests) = compute
        /\ Len(gemini_responses) = compute

(***************************************************************************)
(* C13. (sfa_duckdb_gemini_v2) a function call whose name is not one of    *)
(* the five tools does not make main() raise and is answered by a tool     *)
(* turn that names the call and carries an error, never a result.          *)
(***************************************************************************)
C13_UnknownFunctionAnsweredWithError ==
    \A r \in 1..Len(gemini_responses) :
        LET o == gemini_responses[r]
            before == Len(gemini_requests[r])
        IN  ( /\ o.kind = "response"
              /\ o.function_calls # <<>>
              /\ NoFinalQuery(o.function_calls) ) =>
               \A j \in 1..Len(o.function_calls) :
                  o.function_calls[j].name \notin RegisteredTools =>
                    /\ Len(gemini_messages) >= before + 2 * j
                    /\ LET answer == gemini_messages[before + 2 * j] IN
                       /\ answer.role = "tool"
                       /\ Len(answer.parts) = 1
                       /\ answer.parts[1].function_response.name
                            = o.function_calls[j].name
                       /\ DOMAIN answer.parts[1].function_response.response
                            = {"error"}

(***************************************************************************)
(* C14. No error of one tool call leaves dispatch: whatever the name of a  *)
(* tool_use block and whatever value its input decoded to, the assistant   *)
(* turn that holds it is followed by the tool-result turn that answers     *)
(* every block of it, and main() does not raise in dispatch.               *)
(***************************************************************************)
C14_DispatchErrorsStayLocal ==
    /\ exit_reason # "AttributeError"
    /\ \A k \in 2..Len(messages) : RequestsTools(k) => Answered(k)

(***************************************************************************)
(* C15. Every tool_result appended carries an error flag, true exactly     *)
(* when its call failed: unknown tool, missing model_name or prompt, or    *)
(* the /api/generate request of run_ollama_generate did not yield a text.  *)
(***************************************************************************)
\* The step appended an assistant turn and the tool-result turn after it.
ResultsAppended ==
    /\ Len(messages') = Len(messages) + 2
    /\ messages'[Len(messages) + 2].role = "user"

\* The handler invocations made in the step.
NewHandlerCalls ==
    SubSeq(handler_calls', Len(handler_calls) + 1, Len(handler_calls'))

HandlerFailed(http) == ~(http.kind = "ok" /\ http.response.t = "str")

\* Call j of the turn, the tool_use block b, failed.
CallFailed(b, j, new) ==
    \/ b.name # "run_ollama_generate"
    \/ b.input.t # "obj"
    \/ ~Truthy(DictGet(b.input.m, "model_name"))
    \/ ~Truthy(DictGet(b.input.m, "prompt"))
    \/ \E c \in 1..Len(new) : new[c].call = j /\ HandlerFailed(new[c].http)

C15_Step ==
    ResultsAppended =>
        LET tu == ToolUses(messages'[Len(messages) + 1].content)
            res == messages'[Len(messages) + 2].content
        IN  \A j \in 1..Len(res) :
              /\ "is_error" \in DOMAIN res[j]
              /\ res[j].is_error <=> CallFailed(tu[j], j, NewHandlerCalls)

C15_ErrorFlagMatchesFailure == [][C15_Step]_vars

(***************************************************************************)
(* C16. With max_loops = 1, when the first provider response has no tool   *)
(* call and a non-empty text, the run ends after that one iteration with   *)
(* the final answer delivered and is reported as a success.                *)
(***************************************************************************)
\* The provider answered without tool calls and with a text other than "".
NonEmptyTextOnly(o) ==
    \/ /\ o.kind = "response" /\ NoToolUse(o.content)
       /\ \E i \in 1..Len(o.content) :
             o.content[i].type = "text" /\ o.content[i].text # ""
    \/ /\ o.kind = "json"
       /\ "message" \in DOMAIN o.body
       /\ o.body.message.tool_calls = <<>>
       /\ o.body.message.content # ""

\* The same, with a text that is non-empty after stripping whitespace.
NonBlankTextOnly(o) ==
    \/ o.kind = "response" /\ NoToolUse(o.content) /\ NonBlankText(o.content)
    \/ /\ o.kind = "json"
       /\ "message" \in DOMAIN o.body
       /\ o.body.message.tool_calls = <<>>
       /\ o.body.message.content \notin BlankTexts

\* The run ended in its first iteration with the final answer.
EndedAfterOneIteration ==
    /\ Len(requests) = 1 /\ loop_count = 1
    /\ final_answer_delivered /\ exit_reason = "final_text"
    /\ pc \in {"report", "done"}
    /\ pc = "done" => status = "success"

C16_FirstTextEndsRun ==
    (max_loops = 1 /\ responses # <<>> /\ NonEmptyTextOnly(responses[1])) =>
        EndedAfterOneIteration

(***************************************************************************)
(* C16, amended. With max_loops = 1, when the first provider response has  *)
(* no tool call and a text that is non-empty after stripping whitespace,   *)
(* the run ends after that one iteration with the final answer delivered   *)
(* and is reported as a success.                                           *)
(***************************************************************************)
C16_FirstNonBlankTextEndsRun ==
    (max_loops = 1 /\ responses # <<>> /\ NonBlankTextOnly(responses[1])) =>
        EndedAfterOneIteration

C16_Witness ==
    /\ max_loops = 1 /\ pc = "done" /\ status = "success"
    /\ Len(responses) = 1 /\ NonBlankTextOnly(responses[1])

(***************************************************************************)
(* C17. Execution is sequential.  The handler invocations of a step are    *)
(* those of the tool_use blocks of the turn just appended, made in the     *)
(* order of the blocks, each block that calls for the handler exactly once *)
(* when the results are appended; and the history passed to a provider     *)
(* request ends with a user turn and answers every tool_use block in it.   *)
(***************************************************************************)
\* In history h, turn k + 1 answers the tool_use blocks of turn k.
AnsweredIn(h, k) ==
    /\ k + 1 <= Len(h)
    /\ h[k + 1].role = "user"
    /\ LET tu == ToolUses(h[k].content)
           res == h[k + 1].content
       IN  /\ Len(res) = Len(tu)
           /\ \A j \in 1..Len(res) :
                res[j].type = "tool_result" /\ res[j].tool_use_id = tu[j].id

\* Block b is a well-formed request for run_ollama_generate.
CallsForHandler(b) ==
    /\ b.name = "run_ollama_generate"
    /\ b.input.t = "obj"
    /\ {"model_name", "prompt"} \subseteq DOMAIN b.input.m
    /\ Truthy(b.input.m["model_name"]) /\ Truthy(b.input.m["prompt"])

C17_Step ==
    /\ NewHandlerCalls # <<>> =>
          /\ TurnAppended
          /\ LET tu == ToolUses(NewTurn)
                 new == NewHandlerCalls
             IN  \A c \in 1..Len(new) :
                    /\ new[c].call \in 1..Len(tu)
                    /\ CallsForHandler(tu[new[c].call])
                    /\ tu[new[c].call].id = new[c].id
                    /\ c > 1 => new[c - 1].call < new[c].call
    /\ ResultsAppended =>
          LET tu == ToolUses(messages'[Len(messages) + 1].content)
          IN  { NewHandlerCalls[c].call : c \in 1..Len(NewHandlerCalls) }
                = { j \in 1..Len(tu) : CallsForHandler(tu[j]) }
    /\ RequestMade =>
          LET h == requests'[Len(requests')] IN
          /\ h[Len(h)].role = "user"
          /\ \A k \in 2..Len(h) :
                (h[k].role = "assistant" /\ ~NoToolUse(h[k].content)) =>
                    AnsweredIn(h, k)

C17_SequentialExecution == [][C17_Step]_vars

C17_Witness ==
    /\ Len(requests) = 2 /\ Len(handler_calls) = 2
    /\ handler_calls[1].call = 1 /\ handler_calls[2].call = 2
    /\ Len(requests[2]) = 3

(***************************************************************************)
(* C18. In both loops the history is append-only: every step leaves the    *)
(* history it found as a prefix of the new one, the history that was       *)
(* passed to any earlier request is still a prefix of it, and its first    *)
(* turn is the initial user prompt.                                        *)
(***************************************************************************)
IsPrefix(h, g) == Len(h) <= Len(g) /\ SubSeq(g, 1, Len(h)) = h

C18_Step ==
    /\ IsPrefix(messages, messages')
    /\ IsPrefix(gemini_messages, gemini_messages')
    /\ \A r \in 1..Len(requests') : IsPrefix(requests'[r], messages')
    /\ \A r \in 1..Len(gemini_requests') :
          IsPrefix(gemini_requests'[r], gemini_messages')
    /\ messages[1] = [role |-> "user", content |-> UserPrompt]
    /\ messages'[1] = messages[1]
    /\ gemini_messages[1] = [role |-> "user", parts |-> <<[text |-> UserPrompt]>>]
    /\ gemini_messages'[1] = gemini_messages[1]

C18_HistoryAppendOnly == [][C18_Step]_vars

C18_Witness ==
    /\ gemini_pc = "loop"
    /\ Len(gemini_requests) = 2
    /\ Len(gemini_messages) = 5
    /\ Len(gemini_requests[2]) = 3

(***************************************************************************)
(* C19. A /api/chat message whose tool-call arguments are all dicts or     *)
(* JSON texts is appended as one assistant turn: a text block with the     *)
(* content if and only if the content is not "", then one tool_use block   *)
(* per entry of tool_calls, in order, with the entry's id, its function    *)
(* name and the value its arguments decode to; nothing else.               *)
(***************************************************************************)
\* Values a function.arguments string may be the JSON text of.
ArgValues == { JObj(A) : A \in ArgDicts } \cup { JArr(<<JNum(1)>>) }

Decodable(a) ==
    a.t = "obj" \/ \E v \in ArgValues : json_dumps(v) = a.toks

\* The value that function.arguments denotes.
ArgsOf(a) ==
    IF a.t = "obj" THEN a ELSE CHOOSE v \in ArgValues : json_dumps(v) = a.toks

ExpectedTurn(m) ==
    (IF m.content # "" THEN <<[type |-> "text", text |-> m.content]>> ELSE <<>>)
    \o [j \in 1..Len(m.tool_calls) |->
          [type |-> "tool_use", id |-> m.tool_calls[j].id,
           name |-> m.tool_calls[j].name,
           input |-> ArgsOf(m.tool_calls[j].arguments)]]

\* The step got a /api/chat message.
MessageReceived ==
    /\ RequestMade /\ provider = "ollama"
    /\ NewResponse.kind = "json"
    /\ "message" \in DOMAIN NewResponse.body

C19_Step ==
    ( /\ MessageReceived
      /\ \A j \in 1..Len(NewResponse.body.message.tool_calls) :
            Decodable(NewResponse.body.message.tool_calls[j].arguments) ) =>
        /\ Len(messages') >= Len(messages) + 1
        /\ messages'[Len(messages) + 1] =
             [role |-> "assistant",
              content |-> ExpectedTurn(NewResponse.body.message)]

C20_Step ==
    MessageReceived =>
        LET T == NewResponse.body.message.tool_calls IN
        /\ TurnAppended
        /\ Len(ToolUses(NewTurn)) = Len(T)
        /\ \A j \in 1..Len(T) : \A A \in ArgDicts :
              T[j].arguments \in {JObj(A), JText(json_dumps(JObj(A)))} =>
                 ToolUses(NewTurn)[j] =
                    [type |-> "tool_use", id |-> T[j].id, name |-> T[j].name,
                     input |-> JObj(A)]

C20_BothEncodingsLossless == [][C20_Step]_vars

C20_Witness ==
    /\ Len(responses) = 2 /\ Len(messages) = 5
    /\ LET first == responses[1].body.message.tool_calls
           second == responses[2].body.message.tool_calls
       IN  /\ Len(first) = 1 /\ Len(second) = 1
           /\ first[1].arguments.t = "obj"
           /\ "context_window" \in DOMAIN first[1].arguments.m
           /\ second[1].arguments = JText(json_dumps(first[1].arguments))
    /\ ToolUses(messages[2].content) = ToolUses(messages[4].content)

(***************************************************************************)
(* C21. Every turn appended to the history holds at least one content      *)
(* block (the first turn is the prompt, a string).                         *)
(***************************************************************************)
C21_NoEmptyTurn ==
    \A k \in 2..Len(messages) : Len(messages[k].content) >= 1

(***************************************************************************)
(* C22. When the run has ended with final_answer_delivered, the last turn  *)
(* is an assistant turn without tool_use block and with a text that is     *)
(* not whitespace only, and every earlier assistant turn with tool_use     *)
(* blocks is answered.  When it has ended otherwise, the history is        *)
(* intact: it starts with the prompt and extends the history that was      *)
(* passed to each provider request.                                        *)
(***************************************************************************)
RunEnded == pc \in {"report", "done", "raised"}

C22_EndStateOfHistory ==
    RunEnded =>
        IF final_answer_delivered
        THEN LET last == messages[Len(messages)] IN
             /\ Len(messages) >= 2
             /\ last.role = "assistant"
             /\ NoToolUse(last.content)
             /\ NonBlankText(last.content)
             /\ \A k \in 2..(Len(messages) - 1) : RequestsTools(k) => Answered(k)
        ELSE /\ messages[1] = [role |-> "user", content |-> UserPrompt]
             /\ \A r \in 1..Len(requests) :
                   /\ Len(requests[r]) <= Len(messages)
                   /\ SubSeq(messages, 1, Len(requests[r])) = requests[r]

C22_Witness ==
    /\ pc = "done" /\ final_answer_delivered
    /\ Len(messages) = 4
    /\ RequestsTools(2) /\ Len(ToolUses(messages[2].content)) = 2
    /\ Answered(2)

(***************************************************************************)
(* C23. Whatever transport or decode failure the /api/chat request meets   *)
(* (timeout, refused connection, another request exception, a status >=    *)
(* 400 with any body, a 2xx body that is not JSON),                        *)
(* get_ollama_chat_completion does not raise: it returns a non-empty       *)
(* error, and the loop ends as a provider error.                           *)
(***************************************************************************)
TransportFailure(o) ==
    o.kind \in {"timeout", "connection_error", "request_exception",
                "bad_json", "http_error"}

C23_Step ==
    (RequestMade /\ provider = "ollama" /\ TransportFailure(NewResponse)) =>
        /\ pc' # "raised"
        /\ pc' = "report" /\ exit_reason' = "provider_error"

C23_ChatCompletionNeverRaises == [][C23_Step]_vars

(***************************************************************************)
(* C24. A launch without the credential of the selected provider           *)
(* (ANTHROPIC_API_KEY with the anthropic provider; GEMINI_API_KEY for      *)
(* sfa_duckdb_gemini_v2) exits with status 1 before the loop: no           *)
(* iteration, no provider request, no tool.                                *)
(***************************************************************************)
C24_MissingCredentialExits ==
    /\ ( /\ pc \notin {"off", "start"}
         /\ provider = "anthropic" /\ env.anthropic_api_key = "" ) =>
           /\ pc = "exited" /\ status = "exit 1"
           /\ loop_count = 0 /\ requests = <<>> /\ handler_calls = <<>>
    /\ ( /\ gemini_pc \notin {"off", "start"}
         /\ env.gemini_api_key = "" ) =>
           /\ gemini_pc = "exited"
           /\ compute_iterations = 0 /\ gemini_requests = <<>> /\ executed = <<>>

C24_Witness ==
    /\ gemini_pc = "exited" /\ env.gemini_api_key = ""
    /\ gemini_requests = <<>>

(***************************************************************************)
(* C27. (sfa_duckdb_gemini_v2) launched without -c/--compute, the maximum  *)
(* number of agent loops, args.compute, is 3.                              *)
(***************************************************************************)
C27_DefaultComputeIsThree ==
    (gemini_pc \notin {"off", "start", "exited"} /\ ~env.compute_option.given) =>
        compute = 3

(***************************************************************************)
(* C25. A run_ollama_generate call that supplies only model_name and       *)
(* prompt is executed, with a payload that has neither "system" nor        *)
(* "options"; a call that supplies context_window is sent with that value  *)
(* as options.num_ctx.                                                     *)
(***************************************************************************)
\* Block j of the turn was handed to the handler in the step.
HandlerCalled(j) ==
    \E c \in 1..Len(NewHandlerCalls) : NewHandlerCalls[c].call = j

\* The tool_use blocks of the turn whose results the step appended.
AnsweredToolUses == ToolUses(messages'[Len(messages) + 1].content)

OnlyRequiredArgs(b) ==
    /\ b.name = "run_ollama_generate" /\ b.input.t = "obj"
    /\ DOMAIN b.input.m = {"model_name", "prompt"}
    /\ Truthy(b.input.m["model_name"]) /\ Truthy(b.input.m["prompt"])

C25_OptionalArgs(Supplied(_)) ==
    ResultsAppended =>
        /\ \A j \in 1..Len(AnsweredToolUses) :
              OnlyRequiredArgs(AnsweredToolUses[j]) => HandlerCalled(j)
        /\ \A c \in 1..Len(NewHandlerCalls) :
              LET b == AnsweredToolUses[NewHandlerCalls[c].call]
                  payload == NewHandlerCalls[c].payload
              IN  /\ payload["model"] = b.input.m["model_name"]
                  /\ payload["prompt"] = b.input.m["prompt"]
                  /\ OnlyRequiredArgs(b) =>
                        "system" \notin DOMAIN payload /\ "options" \notin DOMAIN payload
                  /\ Supplied(b.input.m) =>
                        /\ "options" \in DOMAIN payload
                        /\ payload["options"].num_ctx = b.input.m["context_window"]

\* context_window is a key of the arguments.
ContextWindowGiven(m) == "context_window" \in DOMAIN m

\* context_window is a key of the arguments and its value is neither null
\* nor 0.
ContextWindowSet(m) ==
    "context_window" \in DOMAIN m /\ Truthy(m["context_window"])

C25_OptionalArgsPassThrough == [][C25_OptionalArgs(ContextWindowGiven)]_vars

(***************************************************************************)
(* C25, amended. A run_ollama_generate call that supplies only model_name  *)
(* and prompt is executed, with a payload that has neither "system" nor    *)
(* "options"; a call that supplies a context_window other than null and 0  *)
(* is sent with that value as options.num_ctx.                             *)
(***************************************************************************)
C25_SetOptionalArgsPassThrough == [][C25_OptionalArgs(ContextWindowSet)]_vars

C25_Witness ==
    /\ Len(handler_calls) = 2
    /\ "options" \in DOMAIN handler_calls[1].payload
    /\ handler_calls[1].payload["options"].num_ctx = JNum(4096)
    /\ DOMAIN handler_calls[2].payload = {"model", "prompt", "stream"}

(***************************************************************************)
(* C26. (sfa_duckdb_gemini_v2) a function call that raises (its arguments  *)
(* do not match the parameters of the tool) is answered by an error        *)
(* function-response for that call in the history; main() does not raise   *)
(* on it, and the calls after it in the same response are processed.       *)
(***************************************************************************)
\* Calling the tool with these arguments raises TypeError.
ArgsMismatch(fc) ==
    fc.name \in RegisteredTools /\ DOMAIN fc.args # ToolParams(fc.name)

\* Call j of the response is reached: no call before it is a final query
\* that ran.
Reached(fcs, j) ==
    \A i \in 1..(j - 1) :
        fcs[i].name = "run_final_sql_query" => ArgsMismatch(fcs[i])

C26_Step ==
    ( /\ Len(gemini_requests') = Len(gemini_requests) + 1
      /\ gemini_responses'[Len(gemini_responses')].kind = "response" ) =>
        LET fcs == gemini_responses'[Len(gemini_responses')].function_calls
            before == Len(gemini_messages)
        IN  \A j \in 1..Len(fcs) :
              (ArgsMismatch(fcs[j]) /\ Reached(fcs, j)) =>
                 /\ gemini_pc' # "raised"
                 /\ Len(gemini_messages') >= before + 2 * j
                 /\ LET answer == gemini_messages'[before + 2 * j] IN
                    /\ answer.role = "tool"
                    /\ answer.parts[1].function_response.name = fcs[j].name
                    /\ DOMAIN answer.parts[1].function_response.response = {"error"}
                 /\ \/ Len(gemini_messages') = before + 2 * Len(fcs)
                    \/ gemini_pc' = "returned"

C26_CallExceptionsAnswered == [][C26_Step]_vars

C26_Witness ==
    /\ Len(gemini_responses) = 1
    /\ gemini_responses[1].kind = "response"
    /\ Len(gemini_responses[1].function_calls) = 2
    /\ ArgsMismatch(gemini_responses[1].function_calls[1])
    /\ Len(gemini_messages) = 5
    /\ DOMAIN gemini_messages[3].parts[1].function_response.response = {"error"}
    /\ DOMAIN gemini_messages[5].parts[1].function_response.response = {"result"}

(***************************************************************************)
(* omni.py: vocabulary of the properties                                   *)
(***************************************************************************)
\* This step is a call of main() that took the branch of `command`.
MainCalled(command) ==
    main_calls' = main_calls + 1 /\ last_main'.command = command

\* A request to Ollama that did not produce a text: no connection, a
\* timeout, another failure of the request, a status other than 200, a body
\* that is not JSON, or a JSON object without 'response'.
LlmError(http) ==
    \/ http.kind \in {"connection_error", "timeout", "request_exception"}
    \/ /\ http.kind = "response"
       /\ \/ http.status_code # 200
          \/ http.text = <<"<html>">>
          \/ http.text = <<"{", "}">>

\* The mcp_config_json arguments explored that are not JSON texts.
InvalidConfigs == {"{"}

\* The agent_response says that the command failed.
ReportsFailure(agent_response) ==
    /\ agent_response # <<>>
    /\ agent_response[1] \in {"Failed to get plan for capability '",
                              "Failed to get plan for MCP tool '",
                              "Failed to add MCP tool '"}

\* The entries of a capabilities list have pairwise different names.
DistinctNames(caps) ==
    \A i, j \in 1..Len(caps) : caps[i].name = caps[j].name => i = j

\* C28: the show_design_workflow command prints DESIGN_WORKFLOW_DOCS, and
\* main() returns normally after logging one transaction for it.
C28_ShowDesignWorkflowCompletes ==
    [][MainCalled("show_design_workflow")
       => /\ last_main'.raised = "none"
          /\ \E i \in 1..Len(last_main'.printed) :
                last_main'.printed[i] = DESIGN_WORKFLOW_DOCS
          /\ Len(TRANSACTIONS_LOG') = Len(TRANSACTIONS_LOG) + 1]_vars

\* An add or add_mcp_tool whose plan request ended in an error.
PlanFailed ==
    /\ MainCalled("add") \/ MainCalled("add_mcp_tool")
    /\ last_main'.https # <<>>
    /\ LlmError(last_main'.https[1])

\* An add_mcp_tool, all three arguments given, whose configuration is not JSON.
ConfigInvalid ==
    /\ MainCalled("add_mcp_tool")
    /\ last_main'.argv[2] # ""
    /\ last_main'.argv[3] \in InvalidConfigs

\* C29: an add or add_mcp_tool whose plan generation fails, or whose MCP
\* configuration is not valid JSON, leaves ADDED_CAPABILITIES as it was and
\* returns an agent_response that reports the failure (the one logged for the
\* call); with an invalid configuration no request is posted to the LLM.
C29_FailedAddChangesNothing ==
    [][/\ PlanFailed \/ ConfigInvalid
          => /\ ADDED_CAPABILITIES' = ADDED_CAPABILITIES
             /\ last_main'.raised = "none"
             /\ ReportsFailure(last_main'.agent_response)
             /\ TRANSACTIONS_LOG'[Len(TRANSACTIONS_LOG')].agent_response
                  = last_main'.agent_response
       /\ ConfigInvalid
          => /\ qwen3_requests' = qwen3_requests
             /\ last_main'.prompts = <<>>]_vars

\* A session that holds a capability, then a failed add (the LLM is not
\* reachable) and, in another run, an add_mcp_tool with a broken configuration.
C29_Witness ==
    /\ main_calls = 2
    /\ Len(ADDED_CAPABILITIES) = 1
    /\ \/ /\ last_main.command = "add"
          /\ last_main.https = <<[kind |-> "connection_error"]>>
          /\ ReportsFailure(last_main.agent_response)
       \/ /\ last_main.command = "add_mcp_tool"
          /\ last_main.argv[3] \in InvalidConfigs
          /\ last_main.https = <<>>
          /\ ReportsFailure(last_main.agent_response)

\* This step is an add or add_mcp_tool of a name that is already listed.
AddsExistingName ==
    /\ MainCalled("add") \/ MainCalled("add_mcp_tool")
    /\ \E i \in 1..Len(ADDED_CAPABILITIES) :
          ADDED_CAPABILITIES[i].name = S(last_main'.argv[2])

\* C30: no two entries of ADDED_CAPABILITIES have the same name, whatever
\* their kinds, and an add or add_mcp_tool of a name that is already listed
\* leaves the list as it was (the first entry keeps its type, description
\* and plan).
C30_NamesStayUnique ==
    /\ []DistinctNames(ADDED_CAPABILITIES)
    /\ [][AddsExistingName => ADDED_CAPABILITIES' = ADDED_CAPABILITIES]_vars

\* `a` was added as a general capability; add_mcp_tool then got a plan for
\* the same name with another description, and the entry is the first one.
C30_Witness ==
    /\ main_calls = 2
    /\ last_main.command = "add_mcp_tool"
    /\ last_main.argv = <<"add_mcp_tool", "a", "{}", "d2">>
    /\ last_main.raised = "none"
    /\ last_main.https[1].kind = "response"
    /\ last_main.https[1].text = <<"{", "\"response\"", ":", "\"plan B\"", "}">>
    /\ ADDED_CAPABILITIES =
         <<[name |-> <<"a">>, type |-> "general_capability",
            description |-> <<"d1">>, plan |-> <<"plan A">>]>>

\* The text that a 200 response carries in the 'response' field of a JSON
\* object, for the bodies explored that carry one.
GeneratedText(http) ==
    IF http.text = <<"{", "\"response\"", ":", "\"plan A\"", "}">> THEN <<"plan A">>
    ELSE IF http.text = <<"{", "\"response\"", ":", "\"plan B\"", "}">> THEN <<"plan B">>
    ELSE <<"Error:", " no">>

\* The request produced a generated text.
LlmSucceeded(http) ==
    /\ http.kind = "response" /\ http.status_code = 200
    /\ http.text \in { <<"{", "\"response\"", ":", "\"plan A\"", "}">>,
                       <<"{", "\"response\"", ":", "\"plan B\"", "}">>,
                       <<"{", "\"response\"", ":", "\"Error: no\"", "}">> }

C31_Step ==
    (MainCalled("add") \/ MainCalled("add_mcp_tool")) /\ last_main'.https # <<>>
    => LET http == last_main'.https[1]
           r == get_qwen3_response(http)
       IN  /\ r.raised = "none"
           /\ r.is_str
           /\ LlmSucceeded(http) => r.text = GeneratedText(http)
           /\ ~LlmSucceeded(http) => StartsWith(r.text, "Error:")
           /\ last_main'.raised = "none"
           /\ ~LlmSucceeded(http) => ReportsFailure(last_main'.agent_response)

\* C31: for every outcome of the Ollama request get_qwen3_response returns a
\* str and does not raise: the generated text when there is one, and else a
\* message that begins with "Error:", by which the add and add_mcp_tool
\* handlers (which then return normally) recognise the failure.
C31_Qwen3ResponseIsAlwaysAString == [][C31_Step]_vars

\* A command line that names add or add_mcp_tool without all its arguments.
MissingArguments(argv) ==
    /\ argv # <<>>
    /\ \/ argv[1] = "add" /\ Len(argv) < 3
       \/ argv[1] = "add_mcp_tool" /\ Len(argv) < 4

C32_Step ==
    /\ IsPrefix(TRANSACTIONS_LOG, TRANSACTIONS_LOG')
    /\ main_calls' = main_calls + 1 /\ ~MissingArguments(last_main'.argv)
       => /\ last_main'.raised = "none"
          /\ Len(TRANSACTIONS_LOG') = Len(TRANSACTIONS_LOG) + 1
          /\ TRANSACTIONS_LOG'[Len(TRANSACTIONS_LOG')].agent_response # <<>>
          /\ TRANSACTIONS_LOG'[Len(TRANSACTIONS_LOG')].agent_response
               = last_main'.agent_response

\* C32: every call of main() for a command (help or no argument, add,
\* add_mcp_tool, show_transactions, show_design_workflow, or a word that is
\* no command) appends exactly one transaction to TRANSACTIONS_LOG, holding
\* the non-empty agent_response that the command produced, and the entries
\* already logged stay as they are, in their order.
C32_OneTransactionPerCommand == [][C32_Step]_vars

\* The agent_response logged for a help command says that help failed.
HelpReportsError(agent_response) ==
    agent_response[1] = "Attempted to display help via qwen3 (with session-only capabilities list and disclaimers), but encountered an error: "

\* C38: the transaction logged for a help command reports an error exactly
\* when the help text that display_help printed was an error message, whatever
\* the outcomes of the Ollama requests made during the command.
C38_HelpLogAgreesWithDisplay ==
    [][MainCalled("help") /\ last_main'.raised = "none"
       => /\ Len(last_main'.printed) = 1
          /\ HelpReportsError(TRANSACTIONS_LOG'[Len(TRANSACTIONS_LOG')].agent_response)
             <=> StartsWith(last_main'.printed[1], "Error:")]_vars

\* run_final_sql_query is among the tools that were run.
FinalRan(tools) == \E i \in 1..Len(tools) : tools[i] = "run_final_sql_query"

\* The place of the first run_final_sql_query among the calls of a response.
FirstFinal(fcs) ==
    CHOOSE k \in 1..Len(fcs) :
        /\ fcs[k].name = "run_final_sql_query"
        /\ \A j \in 1..(k - 1) : fcs[j].name # "run_final_sql_query"

C33_Step ==
    /\ ~FinalRan(executed)
    /\ FinalRan(executed')
       => LET fcs == gemini_responses'[Len(gemini_responses')].function_calls
              k == FirstFinal(fcs)
          IN  /\ gemini_pc' = "returned"
              /\ executed'[Len(executed')] = "run_final_sql_query"
              /\ Len(executed') <= Len(executed) + k
              /\ Len(gemini_messages') = Len(gemini_messages) + 2 * (k - 1)

\* C33: once run_final_sql_query has been executed the run is over: the
\* iteration returns without executing the calls that follow it in the same
\* response and without appending anything for it or for them, and no step
\* (no request, no call, no append) is taken afterwards.
C33_FinalQueryEndsRun == [][C33_Step]_vars

\* A response asked for list_tables, the final query and list_tables again:
\* the first two were run and only the first was recorded.
C33_Witness ==
    /\ gemini_pc = "returned"
    /\ Len(gemini_responses) = 1
    /\ Len(gemini_responses[1].function_calls) = 3
    /\ gemini_responses[1].function_calls[2].name = "run_final_sql_query"
    /\ gemini_responses[1].function_calls[3].name = "list_tables"
    /\ executed = <<"list_tables", "run_final_sql_query">>
    /\ Len(gemini_messages) = 3

\* range(max_loops) as a number of passes.
Passes == IF max_loops > 0 THEN max_loops ELSE 0

\* C34: the run ends (the report of lines 514-519 is printed, or an exception
\* leaves main) whatever the provider and the tools answer; it makes at most
\* max_loops provider requests, and none, with no tool executed, when
\* max_loops <= 0.
C34_LoopTerminates ==
    /\ <>(pc \in {"done", "raised"})
    /\ [](Len(requests) <= Passes /\ loop_count <= Passes)
    /\ [](max_loops <= 0 => requests = <<>> /\ handler_calls = <<>>)

\* A run that used its whole budget on tool calls and then reported.
C34_Witness ==
    /\ pc = "done"
    /\ max_loops = MaxLoops
    /\ Len(requests) = MaxLoops
    /\ Len(handler_calls) >= MaxLoops
    /\ exit_reason = "exhausted"

\* The roles of a history are user, assistant, user, ...
Alternates(msgs) ==
    \A i \in 1..Len(msgs) :
        msgs[i].role = IF i % 2 = 1 THEN "user" ELSE "assistant"

\* How many of the turns appended by this step have the role.
AppendedWithRole(role) ==
    Cardinality({ i \in (Len(messages) + 1)..Len(messages') :
                    messages'[i].role = role })

C35_Step ==
    /\ IsPrefix(messages, messages')
    /\ AppendedWithRole("assistant") <= 1
    /\ AppendedWithRole("user") <= 1
    /\ RequestMade
       => LET sent == requests'[Len(requests')] IN
          sent[Len(sent)].role = "user"

\* C35: the roles of the history alternate user, assistant, user, ...,
\* starting with the user prompt; every provider request carries a history
\* that ends with a user turn; an iteration appends at most one assistant
\* turn and at most one user turn of tool results.
C35_RolesAlternate ==
    /\ [](messages[1] = [role |-> "user", content |-> UserPrompt])
    /\ []Alternates(messages)
    /\ [][C35_Step]_vars

\* Two iterations that each answered tool calls: five turns, the second
\* request sent with the first tool results as its last turn.
C35_Witness ==
    /\ Len(requests) = 2
    /\ Len(messages) = 5
    /\ Len(requests[2]) = 3
    /\ requests[2][3].role = "user"
    /\ messages[4].role = "assistant"
    /\ messages[5].content[1].type = "tool_result"

\* The input of the tool_use block supplies a non-empty model_name and a
\* non-empty prompt.
SuppliesModelAndPrompt(b) ==
    /\ b.input.t = "obj"
    /\ "model_name" \in DOMAIN b.input.m /\ Truthy(b.input.m["model_name"])
    /\ "prompt" \in DOMAIN b.input.m /\ Truthy(b.input.m["prompt"])

\* Call j of the turn, the tool_use block b, was answered in the step with
\* the tool_result that says both arguments are required.
AnsweredBothRequired(b, j) ==
    /\ ResultsAppended
    /\ LET results == messages'[Len(messages) + 2].content IN
       /\ j <= Len(results)
       /\ results[j].type = "tool_result"
       /\ results[j].tool_use_id = b.id
       /\ results[j].content = RequiredArgsError(b.name)

C36_Step ==
    TurnAppended =>
        \A j \in 1..Len(ToolUses(NewTurn)) :
            LET b == ToolUses(NewTurn)[j] IN
            b.name = "run_ollama_generate" =>
                /\ HandlerCalled(j) => SuppliesModelAndPrompt(b)
                /\ ~SuppliesModelAndPrompt(b) =>
                       ~HandlerCalled(j) /\ AnsweredBothRequired(b, j)

\* C36: the run_ollama_generate handler is invoked for a tool call only
\* when the input of the call supplies a non-empty model_name and a
\* non-empty prompt; a call whose input does not is answered, with no
\* handler invocation, by the tool_result that states both are required.
C36_HandlerNeedsModelAndPrompt == [][C36_Step]_vars

\* The /api/chat request of the step came back with a 'message'.
MessageObtained(o) == o.kind = "json" /\ "message" \in DOMAIN o.body

C37_Step ==
    (RequestMade /\ provider = "ollama") =>
        /\ TurnAppended => MessageObtained(NewResponse)
        /\ ~MessageObtained(NewResponse) =>
               /\ ~TurnAppended
               /\ pc' = "report"
               /\ exit_reason' = "provider_error"

\* C37: with the ollama provider an assistant turn is appended only when
\* /api/chat returned a 'message'; after any error outcome, a body with an
\* 'error' field or a 200 body with no 'message', the iteration appends no
\* assistant turn and the run ends as a provider error.
C37_TurnOnlyFromMessage == [][C37_Step]_vars
====
